---- MODULE Spec2Model ----
(***************************************************************************)
(* Grid stress engine of pmic3/grid-stress-insight: the outage simulator   *)
(* (src/utils/outageSimulation.ts), the outage state of the page           *)
(* (src/pages/Index.tsx), the system aggregator of compute-ratings and the *)
(* N-1 contingency endpoint (supabase/functions/contingency-analysis), the *)
(* rating endpoint (supabase/functions/compute-ratings, with its mock in   *)
(* unnamed/part_011), the weather endpoint (weather-current) and the       *)
(* forecast endpoint (unnamed/part_005).                                   *)
(*                                                                         *)
(* Numbers.  The code computes in IEEE-754 doubles.  The model keeps a     *)
(* stress percentage as an integer number of hundredths of a percent       *)
(* (80 % is 8000), a temperature as hundredths of a degree and an index    *)
(* (SSI) as millionths; a quotient is truncated to that unit.  The special *)
(* values a double can take and an integer cannot (NaN, -Infinity) and the *)
(* JavaScript values null and undefined are integers below every finite    *)
(* value of the model, Infinity is an integer above every finite value.    *)
(***************************************************************************)
EXTENDS Integers, Sequences, FiniteSets, TLC

(***************************************************************************)
(* Bounds of the model                                                     *)
(***************************************************************************)
MaxLines == 3

\* the lines.csv the endpoint can be given has up to MaxRows data rows
MaxRows == 12

\* the aggregators are applied to up to MaxEntries lines
MaxEntries == 3

\* the page has up to MaxInFlight calls of edge functions in flight
MaxInFlight == 2

VARIABLES
  \* src/pages/Index.tsx
  lines,            \* useState lines: [id, name, stress, overloadTemp]
  buses,            \* useState buses: the bus names
  stats,            \* useState stats
  baseStress,       \* useState baseStress: id -> stressPct
  lineRegionMap,    \* useState lineRegionMap: id -> region id
  outageMode,       \* useState outageMode
  cutLines,         \* useState cutLines: array of ids
  cutRegions,       \* useState cutRegions: Set of region ids
  selectedLine,     \* useState selectedLine: the id of the line shown, or "null"
  selectedRegion,   \* useState selectedRegion: the region id, or "null"
  adjustedLines,    \* useMemo adjustedLines, as rendered
  adjustedStats,    \* useMemo adjustedStats, as rendered
  \* OutageSimulator applied to a grid and a cut set
  simLines,         \* the lines argument: [id, name, stress]
  simCut,           \* the cutLines argument: a Set of ids
  simulator,        \* the OutageSimulator constructed from simLines
  simAdjusted,      \* the Map calculateAdjustedStress returns
  simStats,         \* the object calculateSystemStats returns
  simPc,            \* "new", "built", "adjusted", "stats"
  \* the two aggregators applied to the same lines
  entries,          \* per line its stress, or Null for a cut line
  clientStats,      \* calculateSystemStats of the entries
  serverStats,      \* computeSystemStressIndex of the stresses of the lines in service
  aggDone,          \* the aggregators that have run
  \* supabase/functions/contingency-analysis/index.ts
  revision,       \* 1: the first serve handler of the file, 2: the second
  request,        \* the parameters of the request: [tempC, windMS, windDeg]
  fetched,        \* what the two fetches of loadGridData deliver
  pc,             \* position of the handler
  grid,           \* the Map of loadGridData, in insertion order
  busToLines,     \* bus number -> array of line ids
  outageIdx,      \* the position of the for loop over grid.values()
  contingencies,  \* the contingencies pushed so far
  response,       \* the Response returned
  \* supabase/functions/compute-ratings (index.ts and the earlier unnamed/part_011)
  crRevision,     \* 0: unnamed/part_011, 1: the first serve handler of index.ts, 2: the second
  crRequest,      \* the body of the request: [tempC, windMS, windDeg, scenario]
  crFiles,        \* what the loaders are given: the files that can be read and their rows
  crPc,           \* position of the handler
  crLines,        \* the lines of loadGridData, in insertion order
  crIdx,          \* the position of the loop over the lines
  crLo,           \* solveOverloadTemp: lo
  crHi,           \* solveOverloadTemp: hi
  crIter,         \* solveOverloadTemp: i
  crResults,      \* the per-line results pushed so far
  crResponse,     \* the Response returned
  \* computeAttackAngle applied to a wind direction and an azimuth
  angleIn,        \* [windDeg, azimuth]
  angleOut,       \* the attack angle each implementation returns
  \* supabase/functions/weather-current/index.ts
  wxCache,        \* cachedWeather: [data, timestamp]
  wxNow,          \* Date.now() of the request
  wxFetch,        \* what the fetch of the provider delivers
  wxPc,           \* position of the handler
  wxResponse,     \* the Response returned
  \* the forecast-analyze endpoint (unnamed/part_005)
  fcCache,        \* the cache entry of the scenario: [state, data]
  fcWeather,      \* what the fetch of the provider delivers
  fcOutcomes,     \* per hour, what the call of compute-ratings delivers
  fcIdx,          \* i of the loop over the hours
  fcHours,        \* hours
  fcPc,           \* position of the handler
  fcResponse,     \* the Response returned
  \* src/pages/Index.tsx: inputs, modes and calls in flight
  temperature,            \* useState temperature
  windSpeed,              \* useState windSpeed
  windDirection,          \* useState windDirection
  scenario,               \* useState scenario
  mode,                   \* useState mode
  weatherData,            \* useState weatherData, NullWeather for null
  isLoadingWeather,       \* useState isLoadingWeather
  forecastPreviewActive,  \* useState forecastPreviewActive
  ratingsCalls,           \* the bodies of the calls of the computeRatings effect in flight
  previewCalls,           \* the bodies of the calls of handlePreviewForecastHour in flight
  weatherCalls,           \* the number of calls of fetchWeather in flight
  toasts                  \* the descriptions of the error toasts shown

pageVars == <<lines, buses, stats, baseStress, lineRegionMap, outageMode, cutLines,
              cutRegions, selectedLine, selectedRegion, adjustedLines, adjustedStats>>
simVars == <<simLines, simCut, simulator, simAdjusted, simStats, simPc>>
aggVars == <<entries, clientStats, serverStats, aggDone>>
endpointVars == <<revision, request, fetched, pc, grid, busToLines, outageIdx,
                  contingencies, response>>
ratingVars == <<crRevision, crRequest, crFiles, crPc, crLines, crIdx, crLo, crHi, crIter,
                crResults, crResponse>>
angleVars == <<angleIn, angleOut>>
\* the variables of the other edge functions and of the pure functions
weatherVars == <<wxCache, wxNow, wxFetch, wxPc, wxResponse>>
forecastVars == <<fcCache, fcWeather, fcOutcomes, fcIdx, fcHours, fcPc, fcResponse>>
liveVars == <<temperature, windSpeed, windDirection, scenario, mode, weatherData,
              isLoadingWeather, forecastPreviewActive, ratingsCalls, previewCalls, weatherCalls,
              toasts>>
extVars == <<ratingVars, angleVars, weatherVars, forecastVars, liveVars>>
coreVars == <<pageVars, simVars, aggVars, endpointVars>>
vars == <<coreVars, extVars>>

(***************************************************************************)
(* JavaScript values                                                       *)
(***************************************************************************)
NaN == -999999
NegInfinity == -999998
Null == -999997
Undefined == -999996
Infinity == 999999

IsFiniteNum(x) == x \notin {NaN, NegInfinity, Infinity, Null, Undefined}

\* a < b and a >= b on numbers: false when an operand is NaN
JsLt(a, b) == a # NaN /\ b # NaN /\ a < b
JsGe(a, b) == a # NaN /\ b # NaN /\ a >= b

\* a + b on numbers
JsAdd(a, b) ==
  IF a = NaN \/ b = NaN \/ {a, b} = {Infinity, NegInfinity} THEN NaN
  ELSE IF Infinity \in {a, b} THEN Infinity
  ELSE IF NegInfinity \in {a, b} THEN NegInfinity
  ELSE a + b

\* a || b on numbers: b when a is falsy (0, NaN, null, undefined)
JsOr(a, b) == IF a \in {0, NaN, Null, Undefined} THEN b ELSE a

\* a / b for a count b >= 0, in the unit of a: 0/0 is NaN
JsDiv(a, b) ==
  IF ~IsFiniteNum(a) THEN a
  ELSE IF b = 0 THEN (IF a = 0 THEN NaN ELSE IF a > 0 THEN Infinity ELSE NegInfinity)
  ELSE a \div b

MinOf(a, b) == IF a < b THEN a ELSE b
MaxOf(a, b) == IF a > b THEN a ELSE b
SetMin(S) == CHOOSE x \in S : \A y \in S : x <= y

\* values.reduce((a, b) => a + b, 0)
RECURSIVE SumSeq(_)
SumSeq(s) == IF s = <<>> THEN 0 ELSE JsAdd(Head(s), SumSeq(Tail(s)))

\* Math.max(...values): -Infinity for no argument, NaN when a value is NaN
RECURSIVE JsMax(_)
JsMax(s) ==
  IF s = <<>> THEN NegInfinity
  ELSE LET m == JsMax(Tail(s)) IN
       IF m = NaN \/ Head(s) = NaN THEN NaN ELSE IF Head(s) > m THEN Head(s) ELSE m

MapPut(m, k, v) == [x \in (DOMAIN m) \cup {k} |-> IF x = k THEN v ELSE m[x]]

MapGet(m, k) == IF k \in DOMAIN m THEN m[k] ELSE Undefined

EmptyMap == [x \in {} |-> 0]

SeqToSet(s) == {s[i] : i \in 1..Len(s)}

\* Array.prototype.sort with the comparator (a, b) => key(b) - key(a), given the
\* keys of the elements: the stable order of the indices, keys non-increasing
RECURSIVE InsertDesc(_, _, _)
InsertDesc(idx, i, keys) ==
  IF idx = <<>> THEN <<i>>
  ELSE IF keys[Head(idx)] >= keys[i] THEN <<Head(idx)>> \o InsertDesc(Tail(idx), i, keys)
       ELSE <<i>> \o idx

RECURSIVE SortIdxDesc(_, _)
SortIdxDesc(keys, n) ==
  IF n = 0 THEN <<>> ELSE InsertDesc(SortIdxDesc(keys, n - 1), n, keys)

SortDesc(s, keys) ==
  LET idx == SortIdxDesc(keys, Len(s)) IN [i \in 1..Len(s) |-> s[idx[i]]]

\* Array.prototype.slice(0, n)
Slice0(s, n) == SubSeq(s, 1, MinOf(n, Len(s)))

(***************************************************************************)
(* src/utils/outageSimulation.ts: OutageSimulator                          *)
(*                                                                         *)
(* A line name is the sequence of its whitespace-separated words; a bus    *)
(* name is the sequence of the words the pattern captures.                 *)
(***************************************************************************)

\* \(\d+\): a bus number in parentheses
IsBusNumber(w) == w \in {"(1)", "(2)", "(3)", "(4)"}

\* TO, under the i flag
IsTo(w) == w \in {"TO", "to", "To", "tO"}

\* line.name.match(/^(.+?)\s+\(\d+\)\s+TO\s+(.+?)\s+\(\d+\)/i): both groups are
\* lazy, so the first is the shortest prefix after which the rest can match and
\* the second the shortest after that
NameMatch(name) ==
  LET n == Len(name)
      Ends(i) == {j \in (i + 3)..n : IsBusNumber(name[j])}
      Starts == {i \in 2..n : /\ IsBusNumber(name[i])
                              /\ i + 1 <= n
                              /\ IsTo(name[i + 1])
                              /\ Ends(i) # {}}
  IN IF Starts = {} THEN [matched |-> FALSE, bus1 |-> <<>>, bus2 |-> <<>>]
     ELSE LET i == SetMin(Starts)
              j == SetMin(Ends(i))
          IN [matched |-> TRUE,
              bus1 |-> SubSeq(name, 1, i - 1),
              bus2 |-> SubSeq(name, i + 2, j - 1)]

\* the two maps of a simulator before any line is added
NewSimulator == [busToLines |-> EmptyMap, lineToBuses |-> EmptyMap]

\* busToLines.get(bus) after the has/set of an empty Set
LinesAt(b2l, bus) == IF bus \in DOMAIN b2l THEN b2l[bus] ELSE {}

\* the body of lines.forEach in buildAdjacency, for one line
AddLine(sim, line) ==
  LET m == NameMatch(line.name) IN
  IF ~m.matched THEN sim
  ELSE LET b1 == MapPut(sim.busToLines, m.bus1, LinesAt(sim.busToLines, m.bus1) \cup {line.id})
           b2 == MapPut(b1, m.bus2, LinesAt(b1, m.bus2) \cup {line.id})
       IN [busToLines |-> b2,
           lineToBuses |-> MapPut(sim.lineToBuses, line.id, <<m.bus1, m.bus2>>)]

RECURSIVE buildAdjacencyFrom(_, _)
buildAdjacencyFrom(sim, lineList) ==
  IF lineList = <<>> THEN sim
  ELSE buildAdjacencyFrom(AddLine(sim, Head(lineList)), Tail(lineList))

\* new OutageSimulator(lines, buses)
buildAdjacency(lineList) == buildAdjacencyFrom(NewSimulator, lineList)

\* bus1Lines.forEach / bus2Lines.forEach: incidentCuts++ per cut line of the Set
IncidentCutsAt(sim, bus, cut) ==
  IF bus \in DOMAIN sim.busToLines
  THEN Cardinality({c \in sim.busToLines[bus] : c \in cut})
  ELSE 0

incidentCuts(sim, pair, cut) ==
  IncidentCutsAt(sim, pair[1], cut) + IncidentCutsAt(sim, pair[2], cut)

\* the factor without its cap
StressFactor_Uncapped(k) == 10 + k * 3

\* the factor with Math.max for Math.min
StressFactor_MaxForMin(k) == 10 + MaxOf(k * 3, 6)

\* 1 + Math.min(incidentCuts * 0.30, 0.60), in tenths
StressFactor(k) == 10 + MinOf(k * 3, 6)

\* the body with stress 0 in place of null for a cut line
AdjustedStressOf_CutIsZero(sim, line, cut) ==
  IF line.id \in cut THEN 0
  ELSE IF line.id \notin DOMAIN sim.lineToBuses THEN line.stress
  ELSE (line.stress * StressFactor(incidentCuts(sim, sim.lineToBuses[line.id], cut))) \div 10

\* the body of lines.forEach in calculateAdjustedStress, for one line
AdjustedStressOf(sim, line, cut) ==
  IF line.id \in cut THEN Null
  ELSE IF line.id \notin DOMAIN sim.lineToBuses THEN line.stress
  ELSE (line.stress * StressFactor(incidentCuts(sim, sim.lineToBuses[line.id], cut))) \div 10

RECURSIVE calculateAdjustedStressFrom(_, _, _, _)
calculateAdjustedStressFrom(acc, sim, lineList, cut) ==
  IF lineList = <<>> THEN acc
  ELSE calculateAdjustedStressFrom(
         MapPut(acc, Head(lineList).id, AdjustedStressOf(sim, Head(lineList), cut)),
         sim, Tail(lineList), cut)

calculateAdjustedStress(sim, lineList, cut) ==
  calculateAdjustedStressFrom(EmptyMap, sim, lineList, cut)

ZeroBands == [low |-> 0, medium |-> 0, high |-> 0, overload |-> 0]

\* the band of one stress value: the if/else chain
BandOf(stress) ==
  IF JsLt(stress, 7000) THEN "low"
  ELSE IF JsLt(stress, 9000) THEN "medium"
  ELSE IF JsLt(stress, 10000) THEN "high"
  ELSE "overload"

\* stress === null || stress === undefined: the line is skipped
IsSkipped(stress) == stress = Null \/ stress = Undefined

\* the lines.forEach of calculateSystemStats: activeLinesStress and bands
RECURSIVE CollectActive(_, _, _)
CollectActive(acc, lineList, adjustedStress) ==
  IF lineList = <<>> THEN acc
  ELSE LET stress == MapGet(adjustedStress, Head(lineList).id) IN
       CollectActive(
         IF IsSkipped(stress) THEN acc
         ELSE [activeLinesStress |-> Append(acc.activeLinesStress, stress),
               bands |-> [acc.bands EXCEPT ![BandOf(stress)] = @ + 1]],
         Tail(lineList), adjustedStress)

\* Math.pow(stress / 100, 2), in hundred-millionths
Squared(stress) ==
  IF stress = NaN THEN NaN
  ELSE IF stress \in {Infinity, NegInfinity} THEN Infinity
  ELSE stress * stress

\* sum of (stress / 100)^2, in hundred-millionths
RECURSIVE SumSquares(_)
SumSquares(s) == IF s = <<>> THEN 0 ELSE JsAdd(Squared(Head(s)), SumSquares(Tail(s)))

calculateSystemStats(lineList, adjustedStress) ==
  LET acc == CollectActive([activeLinesStress |-> <<>>, bands |-> ZeroBands], lineList, adjustedStress)
      active == acc.activeLinesStress
  IN IF Len(active) = 0
     THEN [ssi |-> 0, avgStress |-> 0, maxStress |-> 0, bands |-> acc.bands]
     ELSE [ssi |-> JsDiv(SumSquares(active), 100 * Len(active)),
           avgStress |-> JsDiv(SumSeq(active), Len(active)),
           maxStress |-> JsMax(active),
           bands |-> acc.bands]

(***************************************************************************)
(* supabase/functions/compute-ratings/index.ts: the system aggregator      *)
(***************************************************************************)

\* stresses.filter(...).length for the filter of a band
CountBand(stresses, band) ==
  LET Passes(s) ==
        CASE band = "low" -> JsLt(s, 7000)
          [] band = "medium" -> JsGe(s, 7000) /\ JsLt(s, 9000)
          [] band = "high" -> JsGe(s, 9000) /\ JsLt(s, 10000)
          [] OTHER -> JsGe(s, 10000)
  IN Cardinality({i \in 1..Len(stresses) : Passes(stresses[i])})

\* (low * 0.1 + medium * 0.4 + high * 0.7 + overload * 1.0) / total, in millionths
computeSystemStressIndex(stresses) ==
  LET low == CountBand(stresses, "low")
      medium == CountBand(stresses, "medium")
      high == CountBand(stresses, "high")
      overload == CountBand(stresses, "overload")
      total == Len(stresses)
  IN [ssi |-> JsDiv((low * 1 + medium * 4 + high * 7 + overload * 10) * 100000, total),
      bands |-> [low |-> low, medium |-> medium, high |-> high, overload |-> overload],
      avgStress |-> JsDiv(SumSeq(stresses), total),
      maxStress |-> JsMax(stresses)]

(***************************************************************************)
(* src/pages/Index.tsx: the outage state of the page                       *)
(***************************************************************************)

\* the topology data the page can be given: id and display name of each line
MasterLines == <<
  [id |-> "L1", name |-> <<"A", "(1)", "TO", "B", "(2)">>],
  [id |-> "L2", name |-> <<"A", "(1)", "TO", "B", "(2)", "CKT", "2">>],
  [id |-> "L3", name |-> <<"B", "(2)", "to", "C", "(3)">>],
  [id |-> "L4", name |-> <<"Transmission", "Line", "4">>],
  [id |-> "L5", name |-> <<"C", "(3)", "TO", "D", "(4)">>] >>

\* the stressPct and overloadTemp compute-ratings returns per line, for two
\* environmental conditions
StressProfiles == {
  <<8000, 4550, 8000, 7820, 0>>,
  <<9580, 10000, 0, 4550, 6990>> }

OverloadTempProfile == <<0, Null, 2850, 3100, Null>>

AllBuses == << <<"A">>, <<"B">>, <<"C">>, <<"D">> >>

RegionIds == {"R1", "R2"}

\* assignBusesToRegions of the loaded buses and regions
BusRegionMap == (<<"A">> :> "R1") @@ (<<"B">> :> "R1") @@ (<<"C">> :> "R2") @@ (<<"D">> :> "R2")

\* the ascending sequence of the elements of a set of indices
RECURSIVE SetToSeq(_)
SetToSeq(S) == IF S = {} THEN <<>> ELSE <<SetMin(S)>> \o SetToSeq(S \ {SetMin(S)})

\* the grids: the master lines at up to MaxLines indices
Grids ==
  {SetToSeq(S) : S \in {T \in SUBSET (1..Len(MasterLines)) : T # {} /\ Cardinality(T) <= MaxLines}}

\* the body of lines.forEach in assignLinesToRegions, for one line
LineRegionOf(line, busList, busRegionMap) ==
  LET m == NameMatch(line.name) IN
  IF ~m.matched THEN "UNKNOWN"
  ELSE IF m.bus1 \notin SeqToSet(busList) \/ m.bus2 \notin SeqToSet(busList) THEN "UNKNOWN"
  ELSE IF m.bus1 \notin DOMAIN busRegionMap \/ m.bus2 \notin DOMAIN busRegionMap THEN "UNKNOWN"
  ELSE IF busRegionMap[m.bus1] = busRegionMap[m.bus2] THEN busRegionMap[m.bus1]
  ELSE "INTERTIE"

assignLinesToRegions(lineList, busList, busRegionMap) ==
  [id \in {lineList[i].id : i \in 1..Len(lineList)} |->
     LineRegionOf(CHOOSE l \in SeqToSet(lineList) : l.id = id, busList, busRegionMap)]

\* the response of compute-ratings for a grid under a profile
RatingsResponse(g, profile) ==
  LET results == [i \in 1..Len(g) |->
                    [id |-> MasterLines[g[i]].id,
                     name |-> MasterLines[g[i]].name,
                     stressPct |-> profile[g[i]],
                     overloadTemp |-> OverloadTempProfile[g[i]]]]
  IN [lines |-> results,
      system |-> computeSystemStressIndex([i \in 1..Len(g) |-> results[i].stressPct])]

\* data.lines.sort((a, b) => b.stressPct - a.stressPct).slice(0, 3), mapped
FirstToFailOf(dataLines) ==
  LET top == Slice0(SortDesc(dataLines, [i \in 1..Len(dataLines) |-> dataLines[i].stressPct]), 3)
  IN [i \in 1..Len(top) |->
        [name |-> top[i].name,
         overloadTemp |-> JsOr(top[i].overloadTemp, 3000),
         stress |-> top[i].stressPct]]

\* stressById[line.id]?.field
StressById(dataLines, id, field) ==
  IF \E i \in 1..Len(dataLines) : dataLines[i].id = id
  THEN LET i == CHOOSE i \in 1..Len(dataLines) :
                  /\ dataLines[i].id = id
                  /\ \A j \in (i + 1)..Len(dataLines) : dataLines[j].id # id
       IN dataLines[i][field]
  ELSE Undefined

\* setLines(prevLines => prevLines.map(...)) of the computeRatings effect
LinesAfterRatings(prevLines, data) ==
  [i \in 1..Len(prevLines) |->
     [id |-> prevLines[i].id,
      name |-> prevLines[i].name,
      stress |-> JsOr(StressById(data.lines, prevLines[i].id, "stressPct"), 0),
      overloadTemp |-> JsOr(StressById(data.lines, prevLines[i].id, "overloadTemp"), 3000)]]

\* setBaseStress(newBaseStress)
BaseStressAfterRatings(data) ==
  [id \in {data.lines[i].id : i \in 1..Len(data.lines)} |-> StressById(data.lines, id, "stressPct")]

\* setStats({...}) of the computeRatings effect
StatsAfterRatings(data) ==
  [systemStressIndex |-> data.system.ssi,
   stressBands |-> data.system.bands,
   avgStress |-> data.system.avgStress,
   maxStress |-> data.system.maxStress,
   firstToFail |-> FirstToFailOf(data.lines)]

\* initialLines of the load effect
InitialLines(g) ==
  [i \in 1..Len(g) |->
     [id |-> MasterLines[g[i]].id, name |-> MasterLines[g[i]].name,
      stress |-> 0, overloadTemp |-> Undefined]]

\* lines.map(line => ({...line, stress: baseStress[line.id] || line.stress}))
LinesWithBaseStress(lineList, base) ==
  [i \in 1..Len(lineList) |->
     [lineList[i] EXCEPT !.stress = JsOr(MapGet(base, lineList[i].id), lineList[i].stress)]]

\* newAdjustedLines of the adjusted memo
NewAdjustedLines(lineList, adjustedStressMap) ==
  [i \in 1..Len(lineList) |->
     LET adjustedStress == MapGet(adjustedStressMap, lineList[i].id) IN
     [id |-> lineList[i].id,
      name |-> lineList[i].name,
      stress |-> IF adjustedStress = Null THEN 0 ELSE JsOr(adjustedStress, lineList[i].stress),
      overloadTemp |-> lineList[i].overloadTemp,
      isCut |-> adjustedStress = Null]]

IsActive(l) == ~l.isCut

\* newStats of the adjusted memo
NewStats(newAdjustedLines, systemStats) ==
  LET active == SelectSeq(newAdjustedLines, IsActive)
      top == Slice0(SortDesc(active, [i \in 1..Len(active) |-> active[i].stress]), 3)
  IN [systemStressIndex |-> systemStats.ssi,
      stressBands |-> systemStats.bands,
      avgStress |-> systemStats.avgStress,
      maxStress |-> systemStats.maxStress,
      firstToFail |-> [i \in 1..Len(top) |->
                         [name |-> top[i].name,
                          overloadTemp |-> JsOr(top[i].overloadTemp, 3000),
                          stress |-> top[i].stress]]]

\* the memo without its shortcut for an empty cut set
AdjustedMemo_AlwaysRecompute(lineList, busList, st, base, cuts) ==
  LET linesWithBaseStress == LinesWithBaseStress(lineList, base)
      outageSimulator == buildAdjacency(linesWithBaseStress)
      adjustedStressMap == calculateAdjustedStress(outageSimulator, linesWithBaseStress, SeqToSet(cuts))
      newAdjustedLines == NewAdjustedLines(lineList, adjustedStressMap)
      systemStats == calculateSystemStats(linesWithBaseStress, adjustedStressMap)
  IN [adjustedLines |-> newAdjustedLines,
      adjustedStats |-> NewStats(newAdjustedLines, systemStats)]

\* the useMemo of { adjustedLines, adjustedStats }, with the outageSimulator memo
AdjustedMemo(lineList, busList, st, base, cuts) ==
  LET cutLinesSet == SeqToSet(cuts) IN
  IF Len(lineList) = 0 \/ Len(busList) = 0 \/ cutLinesSet = {}
  THEN [adjustedLines |-> lineList, adjustedStats |-> st]
  ELSE LET linesWithBaseStress == LinesWithBaseStress(lineList, base)
           outageSimulator == buildAdjacency(linesWithBaseStress)
           adjustedStressMap == calculateAdjustedStress(outageSimulator, linesWithBaseStress, cutLinesSet)
           newAdjustedLines == NewAdjustedLines(lineList, adjustedStressMap)
           systemStats == calculateSystemStats(linesWithBaseStress, adjustedStressMap)
       IN [adjustedLines |-> newAdjustedLines,
           adjustedStats |-> NewStats(newAdjustedLines, systemStats)]

\* the render with the memo fed from what it displayed before
Render_FromDisplayed(cuts) ==
  LET m == AdjustedMemo(adjustedLines, buses, adjustedStats, EmptyMap, cuts) IN
  /\ adjustedLines' = m.adjustedLines
  /\ adjustedStats' = m.adjustedStats

\* the render that follows a change of the cut set
Render(cuts) ==
  LET m == AdjustedMemo(lines, buses, stats, baseStress, cuts) IN
  /\ adjustedLines' = m.adjustedLines
  /\ adjustedStats' = m.adjustedStats

\* the page once the grid, the buses and the regions are loaded and the
\* response of compute-ratings for the current conditions is applied
InitPage ==
  \E g \in Grids, profile \in StressProfiles, busList \in {<<>>, AllBuses} :
    LET data == RatingsResponse(g, profile) IN
    /\ lines = LinesAfterRatings(InitialLines(g), data)
    /\ buses = busList
    /\ stats = StatsAfterRatings(data)
    /\ baseStress = BaseStressAfterRatings(data)
    /\ lineRegionMap = IF Len(busList) > 0
                       THEN assignLinesToRegions(InitialLines(g), busList, BusRegionMap)
                       ELSE EmptyMap
    /\ outageMode = FALSE
    /\ cutLines = <<>>
    /\ cutRegions = {}
    /\ selectedLine = "null"
    /\ selectedRegion = "null"
    /\ adjustedLines = lines
    /\ adjustedStats = stats

gridVars == <<lines, buses, stats, baseStress, lineRegionMap>>

NoSelection == "null"

\* onOutageModeChange={setOutageMode}
SetOutageMode(enabled) ==
  /\ outageMode # enabled
  /\ outageMode' = enabled
  /\ UNCHANGED <<gridVars, cutLines, cutRegions, selectedLine, selectedRegion,
                 adjustedLines, adjustedStats>>
  /\ UNCHANGED <<simVars, aggVars, endpointVars, extVars>>

\* setCutLines(prev => ...) of handleLineClick
ToggleCut(prev, id) ==
  IF id \in SeqToSet(prev)
  THEN SelectSeq(prev, LAMBDA x : x # id)
  ELSE Append(prev, id)

handleLineClick(i) ==
  /\ i \in 1..Len(adjustedLines)
  /\ IF outageMode
     THEN /\ cutLines' = ToggleCut(cutLines, adjustedLines[i].id)
          /\ Render(cutLines')
          /\ UNCHANGED <<selectedLine>>
     ELSE /\ selectedLine' = adjustedLines[i].id
          /\ UNCHANGED <<cutLines, adjustedLines, adjustedStats>>
  /\ UNCHANGED <<gridVars, outageMode, cutRegions, selectedRegion>>
  /\ UNCHANGED <<simVars, aggVars, endpointVars, extVars>>

handleRestoreAll ==
  /\ outageMode
  /\ Len(cutLines) > 0
  /\ cutLines' = <<>>
  /\ cutRegions' = {}
  /\ Render(cutLines')
  /\ UNCHANGED <<gridVars, outageMode, selectedLine, selectedRegion>>
  /\ UNCHANGED <<simVars, aggVars, endpointVars, extVars>>

\* lines.filter(line => lineRegionMap.get(line.id) === regionId).map(line => line.id)
RegionLineIds(regionId) ==
  LET InRegion(l) == l.id \in DOMAIN lineRegionMap /\ lineRegionMap[l.id] = regionId
      ls == SelectSeq(lines, InRegion)
  IN [i \in 1..Len(ls) |-> ls[i].id]

\* [...new Set([...prev, ...ids])]
RECURSIVE AppendNew(_, _)
AppendNew(prev, ids) ==
  IF ids = <<>> THEN prev
  ELSE AppendNew(IF Head(ids) \in SeqToSet(prev) THEN prev ELSE Append(prev, Head(ids)), Tail(ids))

RegionCut(regionId) ==
  /\ cutLines' = AppendNew(cutLines, RegionLineIds(regionId))
  /\ cutRegions' = cutRegions \cup {regionId}
  /\ Render(cutLines')

RegionRestore(regionId) ==
  /\ cutLines' = SelectSeq(cutLines, LAMBDA id : id \notin SeqToSet(RegionLineIds(regionId)))
  /\ cutRegions' = cutRegions \ {regionId}
  /\ Render(cutLines')

\* the Cut button of a region card
handleRegionCut(regionId) ==
  /\ outageMode
  /\ regionId \notin cutRegions
  /\ RegionCut(regionId)
  /\ UNCHANGED <<gridVars, outageMode, selectedLine, selectedRegion>>
  /\ UNCHANGED <<simVars, aggVars, endpointVars, extVars>>

\* the Restore button of a region card
handleRegionRestore(regionId) ==
  /\ outageMode
  /\ regionId \in cutRegions
  /\ RegionRestore(regionId)
  /\ UNCHANGED <<gridVars, outageMode, selectedLine, selectedRegion>>
  /\ UNCHANGED <<simVars, aggVars, endpointVars, extVars>>

\* a click on a region of the map
handleRegionClick(regionId) ==
  /\ IF ~outageMode
     THEN /\ selectedRegion' = IF selectedRegion = regionId THEN NoSelection ELSE regionId
          /\ UNCHANGED <<cutLines, cutRegions, adjustedLines, adjustedStats>>
     ELSE /\ IF regionId \in cutRegions THEN RegionRestore(regionId) ELSE RegionCut(regionId)
          /\ UNCHANGED selectedRegion
  /\ UNCHANGED <<gridVars, outageMode, selectedLine>>
  /\ UNCHANGED <<simVars, aggVars, endpointVars, extVars>>

(***************************************************************************)
(* supabase/functions/contingency-analysis/index.ts: the N-1 endpoint      *)
(*                                                                         *)
(* The file holds two revisions of the endpoint; `revision` is the one     *)
(* that serves the request.  A current is an integer number of tenths of   *)
(* an ampere, a flow of hundredths of a MW, a rating of whole amperes.     *)
(***************************************************************************)

NeedL == {"name", "bus0", "bus1", "branch_name", "conductor", "MOT"}
NeedF == {"name", "p0_nominal"}

\* row i of lines.csv: a chain of buses, with rows whose bus numbers or MOT
\* cannot be read
LineRow(i) ==
  [name |-> "L" \o ToString(i),
   bus0 |-> IF i \in {5, 9} THEN "x" ELSE ToString(i),
   bus1 |-> IF i \in {5, 9} THEN "" ELSE IF i = 12 THEN ToString(i) ELSE ToString(i + 1),
   branch_name |-> IF i % 4 = 0 THEN <<"BUS", ToString(i), "TO", "BUS", ToString(i + 1), "69">>
                   ELSE <<"BUS", ToString(i), "TO", "BUS", ToString(i + 1)>>,
   conductor |-> IF i % 6 = 0 THEN "795 ACSR 26/7 DRAKE" ELSE "ACSR 795",
   MOT |-> IF i % 3 = 0 THEN "n/a" ELSE IF i % 2 = 0 THEN "75" ELSE "100"]

\* a row of lines.csv without a name
BlankRow == [LineRow(1) EXCEPT !.name = ""]

\* row i of line_flows_nominal.csv, in two variants of the flows
FlowRow(i, variant) ==
  [name |-> "L" \o ToString(i),
   p0_nominal |-> IF variant = 1
                  THEN (CASE i % 4 = 0 -> "95.00" [] i % 4 = 1 -> "73.58"
                          [] i % 4 = 2 -> "-120.50" [] OTHER -> "80.25")
                  ELSE (CASE i % 3 = 0 -> "73.58" [] i % 3 = 1 -> "" [] OTHER -> "10.00")]

Variants == {1, 2}

\* parseInt(s, 10): the integer a string of digits denotes, NaN otherwise
parseInt(s) ==
  IF \E n \in 0..99 : ToString(n) = s THEN CHOOSE n \in 0..99 : ToString(n) = s ELSE NaN

\* parseFloat of a flow, in hundredths of a MW
FlowLiterals ==
  ("95.00" :> 9500) @@ ("73.58" :> 7358) @@ ("-120.50" :> -12050) @@ ("10.00" :> 1000)
    @@ ("80.25" :> 8025)

parseFloatMW(s) == IF s \in DOMAIN FlowLiterals THEN FlowLiterals[s] ELSE NaN

\* parseFloat of a temperature, in degrees
parseFloatC(s) == parseInt(s)

\* Number.isFinite(x) ? x : d
FiniteOr(x, d) == IF IsFiniteNum(x) THEN x ELSE d

\* the kV heuristic on the words of the branch name: /\b69\b/, /\b138\b/
KvOfName(name) ==
  IF "69" \in SeqToSet(name) THEN 69
  ELSE IF "138" \in SeqToSet(name) THEN 138
  ELSE 115

\* flowMap: name -> flow, the last row of a name wins, unreadable flows are 0
RECURSIVE FlowMapFrom(_, _)
FlowMapFrom(acc, flowsRows) ==
  IF flowsRows = <<>> THEN acc
  ELSE LET fr == Head(flowsRows)
           p0 == parseFloatMW(fr.p0_nominal)
       IN FlowMapFrom(IF fr.name # "" THEN MapPut(acc, fr.name, FiniteOr(p0, 0)) ELSE acc,
                      Tail(flowsRows))

\* grid.set(id, record): a Map keeps the position of a key it already has
GridSet(g, rec) ==
  IF \E i \in 1..Len(g) : g[i].id = rec.id
  THEN [i \in 1..Len(g) |-> IF g[i].id = rec.id THEN rec ELSE g[i]]
  ELSE Append(g, rec)

\* the body of the loop that builds the grid, for one row
GridRecord(lr, flowMap) ==
  [id |-> lr.name,
   name |-> lr.branch_name,
   bus0 |-> FiniteOr(parseInt(lr.bus0), -1),
   bus1 |-> FiniteOr(parseInt(lr.bus1), -1),
   conductor |-> lr.conductor,
   p0_nominal |-> IF lr.name \in DOMAIN flowMap THEN flowMap[lr.name] ELSE 0,
   kV |-> KvOfName(lr.branch_name),
   MOT |-> FiniteOr(parseFloatC(lr.MOT), 100)]

RECURSIVE BuildGrid(_, _, _)
BuildGrid(acc, linesRows, flowMap) ==
  IF linesRows = <<>> THEN acc
  ELSE BuildGrid(IF Head(linesRows).name = "" THEN acc
                 ELSE GridSet(acc, GridRecord(Head(linesRows), flowMap)),
                 Tail(linesRows), flowMap)

\* parseGrid / the parsing part of loadGridData, once the headers are accepted
parseGrid(linesRows, flowsRows) == BuildGrid(<<>>, linesRows, FlowMapFrom(EmptyMap, flowsRows))

\* the header check of each revision: the first reads the header line of the
\* text, the second the keys of the first data row
HeadersMissing(rev, f) ==
  IF rev = 1
  THEN ~(NeedL \subseteq f.linesHeader) \/ ~(NeedF \subseteq f.flowsHeader)
  ELSE \/ ~(NeedL \subseteq (IF f.linesRows = <<>> THEN {} ELSE f.linesHeader))
       \/ ~(NeedF \subseteq (IF f.flowsRows = <<>> THEN {} ELSE f.flowsHeader))

\* ieee738Ampacity of each revision in whole amperes, at azimuth 0, wind 5 m/s
\* from 90 degrees, for the conductors of conductorLibrary
AmpacityTable ==
  (<<1, "795 ACSR 26/7 DRAKE", 25, 100>> :> 5051) @@ (<<1, "795 ACSR 26/7 DRAKE", 25, 75>> :> 4240)
    @@ (<<1, "795 ACSR 26/7 DRAKE", 45, 100>> :> 4365) @@ (<<1, "795 ACSR 26/7 DRAKE", 45, 75>> :> 3314)
    @@ (<<2, "795 ACSR 26/7 DRAKE", 25, 100>> :> 2712) @@ (<<2, "795 ACSR 26/7 DRAKE", 25, 75>> :> 2205)
    @@ (<<2, "795 ACSR 26/7 DRAKE", 45, 100>> :> 2396) @@ (<<2, "795 ACSR 26/7 DRAKE", 45, 75>> :> 1764)

LibraryConductors == {"795 ACSR 26/7 DRAKE"}

ieee738Ampacity(rev, conductor, tempC, MOT) ==
  IF conductor \notin LibraryConductors THEN 600
  ELSE AmpacityTable[<<rev, conductor, tempC, MOT>>]

\* ratingA > 0 ? (actualA / ratingA) * 100 : 0, in hundredths of a percent
computeLineStress(actualA, ratingA) ==
  IF ratingA > 0
  THEN (IF actualA >= 0 THEN (actualA * 1000) \div ratingA ELSE -((-actualA * 1000) \div ratingA))
  ELSE 0

Abs(x) == IF x < 0 THEN -x ELSE x

\* (flow * 1000) / (Math.sqrt(3) * kV), in tenths of an ampere: the first
\* revision takes the signed flow, the second its absolute value
BaseCurrent(rev, line) ==
  LET mw == IF rev = 1 THEN line.p0_nominal ELSE Abs(line.p0_nominal)
      q == (Abs(mw) * 100000) \div (1732 * line.kV)
  IN IF mw < 0 THEN -q ELSE q

\* baseA * (1 + stressIncreaseFactor)
IncreasedCurrent(baseA) ==
  IF baseA >= 0 THEN (baseA * 13) \div 10 ELSE -((-baseA * 13) \div 10)

\* Math.round(stress * 10) / 10, for stress >= 0
Round1(stress) == ((stress + 5) \div 10) * 10

\* the stress of a neighbor after the outage
NeighborStress(rev, req, N) ==
  computeLineStress(IncreasedCurrent(BaseCurrent(rev, N)),
                    ieee738Ampacity(rev, N.conductor, req.tempC, N.MOT))

\* the body of the adjacency loop, for one line
RECURSIVE BuildBusToLines(_, _)
BuildBusToLines(acc, g) ==
  IF g = <<>> THEN acc
  ELSE LET L == Head(g)
           a0 == IF L.bus0 \in DOMAIN acc THEN acc ELSE MapPut(acc, L.bus0, <<>>)
           a1 == IF L.bus1 \in DOMAIN a0 THEN a0 ELSE MapPut(a0, L.bus1, <<>>)
           a2 == MapPut(a1, L.bus0, Append(a1[L.bus0], L.id))
           a3 == MapPut(a2, L.bus1, Append(a2[L.bus1], L.id))
       IN BuildBusToLines(a3, Tail(g))

\* ids.forEach(id => id !== outage.id && neighbors.add(id)), a Set in insertion order
RECURSIVE AddNeighbors(_, _, _)
AddNeighbors(neighbors, ids, outageId) ==
  IF ids = <<>> THEN neighbors
  ELSE AddNeighbors(IF Head(ids) # outageId /\ Head(ids) \notin SeqToSet(neighbors)
                    THEN Append(neighbors, Head(ids)) ELSE neighbors,
                    Tail(ids), outageId)

NeighborsOf(b2l, outage) ==
  AddNeighbors(AddNeighbors(<<>>, IF outage.bus0 \in DOMAIN b2l THEN b2l[outage.bus0] ELSE <<>>, outage.id),
               IF outage.bus1 \in DOMAIN b2l THEN b2l[outage.bus1] ELSE <<>>, outage.id)

GridGet(g, id) == CHOOSE L \in SeqToSet(g) : L.id = id

\* the loop over the neighbors: issues and maxStress
RECURSIVE CollectIssues(_, _, _, _, _)
CollectIssues(acc, neighbors, g, rev, req) ==
  IF neighbors = <<>> THEN acc
  ELSE LET N == GridGet(g, Head(neighbors))
           stress == NeighborStress(rev, req, N)
       IN CollectIssues(
            IF stress > 8000
            THEN [issues |-> Append(acc.issues, [line |-> N.name, stress |-> Round1(stress)]),
                  maxStress |-> MaxOf(acc.maxStress, stress)]
            ELSE acc,
            Tail(neighbors), g, rev, req)

IssueKeys(issues) == [i \in 1..Len(issues) |-> issues[i].stress]

\* the loop body that pushes the issues in the order of the neighbors
EvaluateOutage_Unsorted(conts, outage, b2l, g, rev, req) ==
  LET neighbors == NeighborsOf(b2l, outage) IN
  IF Len(neighbors) = 0 THEN conts
  ELSE LET r == CollectIssues([issues |-> <<>>, maxStress |-> 0], neighbors, g, rev, req) IN
       IF Len(r.issues) > 0
       THEN Append(conts, [outage |-> outage.name, issues |-> r.issues, maxStress |-> r.maxStress])
       ELSE conts

\* the body of the loop over the outages, for one line: the contingencies after it
EvaluateOutage(conts, outage, b2l, g, rev, req) ==
  LET neighbors == NeighborsOf(b2l, outage) IN
  IF Len(neighbors) = 0 THEN conts
  ELSE LET r == CollectIssues([issues |-> <<>>, maxStress |-> 0], neighbors, g, rev, req) IN
       IF Len(r.issues) > 0
       THEN Append(conts, [outage |-> outage.name,
                           issues |-> SortDesc(r.issues, IssueKeys(r.issues)),
                           maxStress |-> r.maxStress])
       ELSE conts

\* the sort without the truncation to the top 10
TopContingencies_NoSlice(conts) ==
  SortDesc(conts, [i \in 1..Len(conts) |-> conts[i].maxStress])

\* the truncation without the sort: the first 10 in the order of the pushes
TopContingencies_Unsorted(conts) == Slice0(conts, 10)

\* contingencies.sort((a, b) => b.maxStress - a.maxStress), then slice(0, 10)
TopContingencies(conts) ==
  Slice0(SortDesc(conts, [i \in 1..Len(conts) |-> conts[i].maxStress]), 10)

ErrorResponse(message) == [status |-> 500, body |-> [error |-> message]]

\* what the fetches can deliver: a rejection, an error page with a non-OK
\* status, a CSV without a required column, or the two CSV files
Fetches ==
  {[kind |-> "rejected", ok |-> FALSE, linesHeader |-> {}, flowsHeader |-> {},
    linesRows |-> <<>>, flowsRows |-> <<>>]}
  \cup {[kind |-> "response", ok |-> FALSE, linesHeader |-> {"404: Not Found"},
         flowsHeader |-> {"404: Not Found"}, linesRows |-> <<>>, flowsRows |-> <<>>]}
  \cup {[kind |-> "response", ok |-> TRUE, linesHeader |-> NeedL \ {missing},
         flowsHeader |-> NeedF, linesRows |-> <<LineRow(1)>>, flowsRows |-> <<FlowRow(1, 1)>>]
          : missing \in {"bus1", "MOT"}}
  \cup {[kind |-> "response", ok |-> TRUE, linesHeader |-> NeedL, flowsHeader |-> NeedF,
         linesRows |-> [i \in 1..n |-> IF blank THEN BlankRow ELSE LineRow(i)],
         flowsRows |-> [i \in 1..MaxOf(n, 1) |-> FlowRow(i, variant)]]
          : n \in 0..MaxRows, variant \in Variants, blank \in BOOLEAN}

Requests == {[tempC |-> t, windMS |-> 5, windDeg |-> 90] : t \in {25, 45}}

InitContingency ==
  /\ revision \in {1, 2}
  /\ request \in Requests
  /\ fetched \in Fetches
  /\ pc = "start"
  /\ grid = <<>>
  /\ busToLines = EmptyMap
  /\ outageIdx = 0
  /\ contingencies = <<>>
  /\ response = [status |-> 0, body |-> [pending |-> TRUE]]

\* await loadGridData() failing: the catch block answers
LoadFails ==
  /\ pc = "start"
  /\ \/ fetched.kind = "rejected"
     \/ revision = 2 /\ ~fetched.ok
     \/ HeadersMissing(revision, fetched)
  /\ pc' = "done"
  /\ response' = ErrorResponse(IF revision = 1 THEN "error.message"
                              ELSE "Internal error running contingency analysis")
  /\ UNCHANGED <<revision, request, fetched, grid, busToLines, outageIdx, contingencies>>
  /\ UNCHANGED <<pageVars, simVars, aggVars, extVars>>

\* await loadGridData() returning the grid
LoadGridData ==
  /\ pc = "start"
  /\ fetched.kind = "response"
  /\ revision = 2 => fetched.ok
  /\ ~HeadersMissing(revision, fetched)
  /\ grid' = parseGrid(fetched.linesRows, fetched.flowsRows)
  /\ pc' = "loaded"
  /\ UNCHANGED <<revision, request, fetched, busToLines, outageIdx, contingencies, response>>
  /\ UNCHANGED <<pageVars, simVars, aggVars, extVars>>

\* if (!grid.size) return json({ error: "No grid data loaded" }, 500), second revision
EmptyGrid ==
  /\ pc = "loaded"
  /\ revision = 2
  /\ Len(grid) = 0
  /\ pc' = "done"
  /\ response' = ErrorResponse("No grid data loaded")
  /\ UNCHANGED <<revision, request, fetched, grid, busToLines, outageIdx, contingencies>>
  /\ UNCHANGED <<pageVars, simVars, aggVars, extVars>>

\* the adjacency loop
BuildAdjacency ==
  /\ pc = "loaded"
  /\ revision = 2 => Len(grid) # 0
  /\ busToLines' = BuildBusToLines(EmptyMap, grid)
  /\ outageIdx' = 1
  /\ pc' = "outages"
  /\ UNCHANGED <<revision, request, fetched, grid, contingencies, response>>
  /\ UNCHANGED <<pageVars, simVars, aggVars, extVars>>

\* one iteration of the loop over the outages
OutageStep ==
  /\ pc = "outages"
  /\ outageIdx <= Len(grid)
  /\ contingencies' = EvaluateOutage(contingencies, grid[outageIdx], busToLines, grid, revision, request)
  /\ outageIdx' = outageIdx + 1
  /\ UNCHANGED <<revision, request, fetched, pc, grid, busToLines, response>>
  /\ UNCHANGED <<pageVars, simVars, aggVars, extVars>>

\* the final sort, the truncation and the response
Respond ==
  /\ pc = "outages"
  /\ outageIdx > Len(grid)
  /\ response' = [status |-> 200, body |-> [contingencies |-> TopContingencies(contingencies)]]
  /\ pc' = "done"
  /\ UNCHANGED <<revision, request, fetched, grid, busToLines, outageIdx, contingencies>>
  /\ UNCHANGED <<pageVars, simVars, aggVars, extVars>>

(***************************************************************************)
(* OutageSimulator applied to a grid and a cut set                         *)
(***************************************************************************)

NoStats == [ssi |-> 0, avgStress |-> 0, maxStress |-> 0, bands |-> ZeroBands]

\* the lines argument: the lines of a grid with the stress of a profile
SimLinesOf(g, profile) ==
  [i \in 1..Len(g) |->
     [id |-> MasterLines[g[i]].id, name |-> MasterLines[g[i]].name, stress |-> profile[g[i]]]]

IdsOf(lineList) == {lineList[i].id : i \in 1..Len(lineList)}

\* new OutageSimulator(lines, buses)
Construct ==
  /\ simPc = "new"
  /\ simulator' = buildAdjacency(simLines)
  /\ simPc' = "built"
  /\ UNCHANGED <<simLines, simCut, simAdjusted, simStats>>
  /\ UNCHANGED <<pageVars, aggVars, endpointVars, extVars>>

\* outageSimulator.calculateAdjustedStress(lines, cutLinesSet)
CalculateAdjusted ==
  /\ simPc = "built"
  /\ simAdjusted' = calculateAdjustedStress(simulator, simLines, simCut)
  /\ simPc' = "adjusted"
  /\ UNCHANGED <<simLines, simCut, simulator, simStats>>
  /\ UNCHANGED <<pageVars, aggVars, endpointVars, extVars>>

\* outageSimulator.calculateSystemStats(lines, adjustedStressMap)
CalculateStats ==
  /\ simPc = "adjusted"
  /\ simStats' = calculateSystemStats(simLines, simAdjusted)
  /\ simPc' = "stats"
  /\ UNCHANGED <<simLines, simCut, simulator, simAdjusted>>
  /\ UNCHANGED <<pageVars, aggVars, endpointVars, extVars>>

(***************************************************************************)
(* The two aggregators applied to the same lines                           *)
(***************************************************************************)

StressSamples == {0, 6999, 7000, 9000, 10000, 12800}

\* the stress computeLineStress returns for a rating of 0: 0 / 0 and x / 0
DegenerateStress == {NaN, Infinity}

\* the lines and the adjusted stress Map that carry the entries
EntryLines(es) == [i \in 1..Len(es) |-> [id |-> ToString(i), stress |-> 0]]
EntryMap(es) == [id \in {ToString(i) : i \in 1..Len(es)} |->
                   es[CHOOSE i \in 1..Len(es) : ToString(i) = id]]

InService(stress) == stress # Null

\* calculateSystemStats on the entries
ClientAggregate ==
  /\ "client" \notin aggDone
  /\ clientStats' = calculateSystemStats(EntryLines(entries), EntryMap(entries))
  /\ aggDone' = aggDone \cup {"client"}
  /\ UNCHANGED <<entries, serverStats>>
  /\ UNCHANGED <<pageVars, simVars, endpointVars, extVars>>

\* computeSystemStressIndex on the stresses of the lines in service
ServerAggregate ==
  /\ "server" \notin aggDone
  /\ serverStats' = computeSystemStressIndex(SelectSeq(entries, InService))
  /\ aggDone' = aggDone \cup {"server"}
  /\ UNCHANGED <<entries, clientStats>>
  /\ UNCHANGED <<pageVars, simVars, endpointVars, extVars>>

(***************************************************************************)
(* supabase/functions/compute-ratings: the rating endpoint                 *)
(*                                                                         *)
(* Three versions of the endpoint are in the repository: crRevision 0 is   *)
(* the endpoint on mock lines (unnamed/part_011), 1 and 2 are the two      *)
(* revisions held by compute-ratings/index.ts.                             *)
(*                                                                         *)
(* Units.  An angle is a whole number of degrees, a wind speed a number of *)
(* tenths of a m/s.  An ambient temperature is a number of ticks of 2^-24  *)
(* degree, so that the halvings of the search interval of                  *)
(* solveOverloadTemp are exact, as they are in doubles; the heat balance   *)
(* is evaluated at that temperature rounded down to 1/64 degree.  A        *)
(* cooling power is in mW per metre, a resistance in 1e-4 ohm per km, a    *)
(* current in tenths of an ampere, a flow in hundredths of a MW.  The      *)
(* fractional powers and the sine are tabulated at the points the inputs   *)
(* of the model reach.                                                     *)
(***************************************************************************)
TicksPerDegree == 16777216
TicksPer64th == 262144
DegToTicks(c) == c * TicksPerDegree
T64(tempTicks) == tempTicks \div TicksPer64th

\* the % operator of JavaScript: the remainder has the sign of the dividend
JsRem(a, n) == IF a >= 0 THEN a % n ELSE -((-a) % n)

computeAttackAngle(windDeg, lineAzimuthDeg) ==
  LET a == JsRem(JsRem(windDeg, 360) + 360, 360)
      b == JsRem(JsRem(lineAzimuthDeg, 360) + 360, 360)
      d == Abs(a - b)
      delta == IF d > 180 THEN 360 - d ELSE d
  IN  MinOf(delta, 90)

\* computeAttackAngle of unnamed/part_011
computeAttackAngle_mock(windDeg, lineAzimuthDeg) ==
  LET diff == Abs(windDeg - lineAzimuthDeg) IN MinOf(diff, 180 - diff)

\* the attack angle ieee738Ampacity of the contingency endpoint derives
attackOfContingency(azimuthDeg, windDeg) ==
  LET attack == Abs(JsRem(azimuthDeg - windDeg + 540, 360) - 180) IN MinOf(attack, 90)

\* 1000 sin(deg degrees), deg a multiple of 15
SinTable == [d \in {0, 15, 30, 45, 60, 75, 90} |->
               CASE d = 0 -> 0 [] d = 15 -> 259 [] d = 30 -> 500 [] d = 45 -> 707
                 [] d = 60 -> 866 [] d = 75 -> 966 [] d = 90 -> 1000]
SinMilli(deg) ==
  LET r == deg % 360
      half == IF r >= 180 THEN r - 180 ELSE r
      s == SinTable[IF half > 90 THEN 180 - half ELSE half]
  IN  IF r >= 180 THEN -s ELSE s

\* 1000 x^0.6 for x thousandths
Pow06Milli(x) ==
  CASE x = 0 -> 0 [] x = 200 -> 381 [] x = 500 -> 660 [] x = 1000 -> 1000
    [] x = 1295 -> 1168 [] x = 2500 -> 1733 [] x = 3535 -> 2133 [] x = 4330 -> 2409
    [] x = 4830 -> 2573 [] x = 5000 -> 2627

\* 10^4 D^0.4 and 10^5 D^0.6 for a diameter of D metres, given in tenths of a mm
DiameterPow04(diameter) == CASE diameter = 281 -> 2396 [] diameter = 318 -> 2518 [] diameter = 218 -> 2165
DiameterPow06(diameter) == CASE diameter = 281 -> 11728 [] diameter = 318 -> 12632 [] diameter = 218 -> 10071

RECURSIVE ISqrtIn(_, _, _)
ISqrtIn(n, lo, hi) ==
  IF lo >= hi THEN lo
  ELSE LET mid == (lo + hi + 1) \div 2
       IN  IF mid * mid <= n THEN ISqrtIn(n, mid, hi) ELSE ISqrtIn(n, lo, mid - 1)
\* Math.sqrt, rounded down
ISqrt(n) == ISqrtIn(n, 0, 46340)

\* conductorLibrary of the second revision and of unnamed/part_011
conductorLibraryCR ==
  [c \in {"ACSR 795", "ACSR 1033", "ACSR 477"} |->
     CASE c = "ACSR 795"  -> [diameter |-> 281, resistance |-> 733, emissivity |-> 5, absorptivity |-> 5]
       [] c = "ACSR 1033" -> [diameter |-> 318, resistance |-> 563, emissivity |-> 5, absorptivity |-> 5]
       [] c = "ACSR 477"  -> [diameter |-> 218, resistance |-> 1206, emissivity |-> 5, absorptivity |-> 5]]

\* the conductor library file of the first revision: name -> [res25C, res50C, diameter]
LibraryFile == [c \in {"ACSR 795"} |-> [res25C |-> 733, res50C |-> 806, diameter |-> 281]]

\* alpha is in 1e-5 per degree
getConductorParams(conductorName, library) ==
  IF conductorName \in DOMAIN library
  THEN LET libData == library[conductorName]
           alpha == ((libData.res50C - libData.res25C) * 100000) \div (libData.res25C * 25)
       IN  [res25C |-> libData.res25C, res50C |-> libData.res50C, diameter |-> libData.diameter,
            alpha |-> IF alpha > 0 THEN alpha ELSE 390, emissivity |-> 8, absorptivity |-> 8]
  ELSE [res25C |-> 1166, res50C |-> 1278, diameter |-> 281, alpha |-> 390,
        emissivity |-> 8, absorptivity |-> 8]

resistanceAtTemp(R25, alpha, Tc_C) == (R25 * (100000 + alpha * (Tc_C - 25))) \div 100000

\* (T + 273.15)^4 in units of 16 K^4, T in 64ths of a degree
Kelvin4(t64) ==
  LET k == t64 + 17482
      sq == k * k
      q == sq \div 16384
  IN  q * q

\* the radiation term with the two temperatures exchanged
RadiationCooling_Exchanged(emissivity, diameter, mot64, ta64) ==
  (Kelvin4(ta64) - Kelvin4(mot64)) \div (35087000 \div (emissivity * diameter))

\* sigma emissivity pi D (Tk^4 - Ta^4), in mW per metre
RadiationCooling(emissivity, diameter, mot64, ta64) ==
  (Kelvin4(mot64) - Kelvin4(ta64)) \div (35087000 \div (emissivity * diameter))

\* 10^6 * 0.0119 * airDensity^0.6
ConvectionScale == 13441
\* 10^3 * 0.24 * k * pi / nu^0.6
ConvectionScale1 == 15370

\* ieee738Ampacity of unnamed/part_011
ieee738Ampacity_mock(tempTicks, windMS, attackDeg, motC, conductor) ==
  LET windAngleFactor == SinMilli(attackDeg)
      effectiveWind == (windMS * (IF windAngleFactor > 200 THEN windAngleFactor ELSE 200)) \div 10
      perDegree == (((ConvectionScale * Pow06Milli(effectiveWind)) \div 1000)
                      * DiameterPow04(conductor.diameter)) \div 10000
      convectionCooling == (perDegree * (motC * 64 - T64(tempTicks))) \div 64000
      radiationCooling ==
        RadiationCooling(conductor.emissivity, conductor.diameter, motC * 64, T64(tempTicks))
      totalCooling == convectionCooling + radiationCooling
      currentSquared == (totalCooling * 1000) \div conductor.resistance
  IN  ISqrt(MaxOf(0, currentSquared))

\* ieee738Ampacity of the first revision
ieee738Ampacity_1(ambientTicks, windMS, attackAngleDeg, motC, conductor) ==
  LET Tmax == motC * 64
      Ta == T64(ambientTicks)
      V == MaxOf(windMS * 100, 500)
      h_conv == (((ConvectionScale1 * DiameterPow06(conductor.diameter)) \div 100000)
                   * Pow06Milli(V)) \div 1000
      Q_conv == (((h_conv * Abs(SinMilli(attackAngleDeg))) \div 1000) * (Tmax - Ta)) \div 64
      Q_rad == RadiationCooling(conductor.emissivity, conductor.diameter, Tmax, Ta)
      Q_solar == conductor.absorptivity * conductor.diameter * 5
      Q_net == Q_conv + Q_rad - Q_solar
      R_actual == resistanceAtTemp(conductor.res25C, conductor.alpha, motC)
  IN  ISqrt(MaxOf(0, (Q_net * 1000) \div R_actual) * 1000)

\* ieee738Ampacity of the second revision
ieee738Ampacity_2(tempTicks, windMS, attackDeg, motC, conductor) ==
  LET windAngleFactor == SinMilli(MaxOf(0, MinOf(90, attackDeg)))
      effectiveWind == MaxOf(200, (windMS * MaxOf(200, windAngleFactor)) \div 10)
      perDegree == (((ConvectionScale * Pow06Milli(effectiveWind)) \div 1000)
                      * DiameterPow04(conductor.diameter)) \div 10000
      convectionCooling == (perDegree * MaxOf(0, motC * 64 - T64(tempTicks))) \div 64000
      radiationCooling ==
        RadiationCooling(conductor.emissivity, conductor.diameter, motC * 64, T64(tempTicks))
      totalCoolingPerMeter == convectionCooling + radiationCooling
      Rkm == resistanceAtTemp(conductor.resistance, 390, motC)
  IN  ISqrt(MaxOf((totalCoolingPerMeter * 1000) \div MaxOf(Rkm, 1), 0) * 1000)

\* a NaN MOT makes every term of the heat balance NaN
ieee738AmpacityCR(rev, tempTicks, windMS, attackDeg, motC, conductor) ==
  IF motC = NaN THEN NaN
  ELSE CASE rev = 0 -> ieee738Ampacity_mock(tempTicks, windMS, attackDeg, motC, conductor)
         [] rev = 1 -> ieee738Ampacity_1(tempTicks, windMS, attackDeg, motC, conductor)
         [] rev = 2 -> ieee738Ampacity_2(tempTicks, windMS, attackDeg, motC, conductor)

\* (actualA / ratingA) * 100 of the rating endpoint, in hundredths of a percent
computeLineStressCR(actualA, ratingA) ==
  IF ratingA = NaN THEN NaN
  ELSE IF ratingA = 0
       THEN (IF actualA = 0 THEN NaN ELSE IF actualA > 0 THEN Infinity ELSE NegInfinity)
       ELSE IF actualA >= 0 THEN (actualA * 10000) \div ratingA
            ELSE -(((-actualA) * 10000) \div ratingA)

\* the multiplier of a scenario, in hundredths
scenarioMultiplier(sc) ==
  CASE sc = "min" -> 85 [] sc = "max" -> 115 [] sc = "nominal" -> 100

\* (MW * 1000) / (Math.sqrt(3) * kV), MW the product of a flow and a multiplier
AmpsOf(flow, multiplier, kV) ==
  IF flow >= 0 THEN (flow * multiplier * 250) \div (433 * kV)
  ELSE -(((-flow) * multiplier * 250) \div (433 * kV))

(***************************************************************************)
(* computeAttackAngle applied to a wind direction and an azimuth           *)
(***************************************************************************)
\* the directions the three implementations are applied to: multiples of 45
\* degrees over four turns, negative and above 360 included
AngleSamples == {45 * k : k \in (0 - 16)..16}

NoAngles == [ratings |-> Undefined, mock |-> Undefined, contingency |-> Undefined]

AttackRatings ==
  /\ angleOut.ratings = Undefined
  /\ angleOut' = [angleOut EXCEPT !.ratings = computeAttackAngle(angleIn.windDeg, angleIn.azimuth)]
  /\ UNCHANGED <<angleIn, coreVars, ratingVars, weatherVars, forecastVars, liveVars>>

AttackMock ==
  /\ angleOut.mock = Undefined
  /\ angleOut' = [angleOut EXCEPT !.mock = computeAttackAngle_mock(angleIn.windDeg, angleIn.azimuth)]
  /\ UNCHANGED <<angleIn, coreVars, ratingVars, weatherVars, forecastVars, liveVars>>

AttackContingency ==
  /\ angleOut.contingency = Undefined
  /\ angleOut' = [angleOut EXCEPT
                    !.contingency = attackOfContingency(angleIn.azimuth, angleIn.windDeg)]
  /\ UNCHANGED <<angleIn, coreVars, ratingVars, weatherVars, forecastVars, liveVars>>

\* the mock lines of unnamed/part_011: nominalMVA is the flow
MockLines ==
  << [id |-> "L1", conductor |-> "ACSR 795", mot |-> 75, azimuth |-> 45, kV |-> 115, flow |-> 15000],
     [id |-> "L2", conductor |-> "ACSR 795", mot |-> 75, azimuth |-> 90, kV |-> 115, flow |-> 12000],
     [id |-> "L3", conductor |-> "ACSR 1033", mot |-> 75, azimuth |-> 135, kV |-> 115, flow |-> 20000],
     [id |-> "L4", conductor |-> "ACSR 477", mot |-> 75, azimuth |-> 180, kV |-> 115, flow |-> 10000] >>

\* The rows of lines.csv joined with line_flows_nominal.csv, the geometry and
\* the bus voltages: parts is the number of columns of the row, MOT and flow
\* are what parseFloat returns (NaN for an unparseable or missing field).
\* L1 runs close to its rating, L2 carries a reverse flow, L3 has an unknown
\* conductor and no readable MOT or flow, L4 is idle with a low MOT, L5 is a
\* row cut short before the conductor and MOT columns.
RatingRows ==
  << [name |-> "L1", parts |-> 13, conductor |-> "ACSR 795", MOT |-> 75, flow |-> 5600,
      azimuth |-> 0, kV |-> 69],
     [name |-> "L2", parts |-> 13, conductor |-> "ACSR 477", MOT |-> 100, flow |-> 0 - 3000,
      azimuth |-> 45, kV |-> 69],
     [name |-> "L3", parts |-> 13, conductor |-> "UNKNOWN", MOT |-> NaN, flow |-> NaN,
      azimuth |-> 90, kV |-> 115],
     [name |-> "L4", parts |-> 13, conductor |-> "ACSR 1033", MOT |-> 50, flow |-> 0,
      azimuth |-> 135, kV |-> 115],
     [name |-> "L5", parts |-> 5, conductor |-> "UNKNOWN", MOT |-> NaN, flow |-> 1000,
      azimuth |-> 0, kV |-> 115] >>

\* x || fallback for a number x
OrElse(x, fallback) == IF x = NaN \/ x = 0 THEN fallback ELSE x

\* loadGridData of the first revision (270-349) and of the second (602-674)
loadGridDataCR(rev, files) ==
  CASE rev = 0 -> MockLines
    [] rev = 1 ->
         LET kept == SelectSeq(RatingRows, LAMBDA row : row.parts >= 13)
         IN  [i \in 1..Len(kept) |->
                [id |-> kept[i].name, conductor |-> kept[i].conductor, mot |-> kept[i].MOT,
                 azimuth |-> kept[i].azimuth,
                 kV |-> IF files.voltagesOk THEN kept[i].kV ELSE 69,
                 flow |-> OrElse(kept[i].flow, 0)]]
    [] rev = 2 ->
         [i \in 1..Len(RatingRows) |->
            [id |-> RatingRows[i].name, conductor |-> RatingRows[i].conductor,
             mot |-> OrElse(RatingRows[i].MOT, 100), azimuth |-> RatingRows[i].azimuth,
             kV |-> RatingRows[i].kV, flow |-> OrElse(RatingRows[i].flow, 0)]]

\* the conductor parameters the handler uses for a line
ConductorOf(rev, files, line) ==
  CASE rev = 0 -> conductorLibraryCR[line.conductor]
    [] rev = 1 -> getConductorParams(line.conductor,
                                     IF files.libraryOk THEN LibraryFile ELSE << >>)
    [] rev = 2 -> IF line.conductor \in DOMAIN conductorLibraryCR
                  THEN conductorLibraryCR[line.conductor]
                  ELSE conductorLibraryCR["ACSR 795"]

AttackOf(rev, windDeg, line) ==
  IF rev = 0 THEN computeAttackAngle_mock(windDeg, line.azimuth)
  ELSE computeAttackAngle(windDeg, line.azimuth)

\* actualA of the handler: the second revision takes Math.abs of the flow
ActualOf(rev, sc, line) ==
  AmpsOf(IF rev = 2 THEN Abs(line.flow) ELSE line.flow, scenarioMultiplier(sc), line.kV)

\* the rating of a line at an ambient temperature, under the wind of the request
RatingAt(rev, files, req, line, tempTicks) ==
  ieee738AmpacityCR(rev, tempTicks, req.windMS, AttackOf(rev, req.windDeg, line), line.mot,
                    ConductorOf(rev, files, line))

RatingOf(rev, files, req, line) == RatingAt(rev, files, req, line, DegToTicks(req.tempC))

StressOf(rev, files, req, line) ==
  computeLineStressCR(ActualOf(rev, req.scenario, line), RatingOf(rev, files, req, line))

\* Number.prototype.toFixed(1) of a stress, Number.prototype.toFixed(1) of an index
ToFixed1(x) ==
  IF ~IsFiniteNum(x) THEN x
  ELSE IF x >= 0 THEN ((x + 5) \div 10) * 10 ELSE -(((5 - x) \div 10) * 10)
ToFixed1Index(x) == IF ~IsFiniteNum(x) THEN x ELSE ((x + 50000) \div 100000) * 100000

\* the iterations of the search and its upper end, in ticks
Iterations(rev) == IF rev = 0 THEN 20 ELSE 24
SearchTop(rev, line) == IF rev = 0 THEN DegToTicks(line.mot) ELSE DegToTicks(60)

\* the object pushed for a line; the first revision formats its numbers and
\* reports no overload temperature per line
LineResult(rev, files, req, line, overloadTemp) ==
  LET stress == StressOf(rev, files, req, line)
  IN  [id |-> line.id,
       ratingA |-> RatingOf(rev, files, req, line),
       actualA |-> ActualOf(rev, req.scenario, line),
       stress |-> stress,
       stressPct |-> IF rev = 1 THEN ToFixed1(stress) ELSE stress,
       overloadTemp |-> overloadTemp]

Stresses(results) == [i \in 1..Len(results) |-> results[i].stress]

\* the body of the 200 response.  topLinesAtRisk orders a NaN stress last;
\* where the comparator b.stress - a.stress leaves it depends on the engine.
ResponseBody(rev, results) ==
  LET systemStats == computeSystemStressIndex(Stresses(results))
  IN  IF rev = 1
      THEN [lines |-> results,
            system |-> [ssi |-> ToFixed1Index(systemStats.ssi), bands |-> systemStats.bands,
                        avgStress |-> ToFixed1(systemStats.avgStress),
                        maxStress |-> ToFixed1(systemStats.maxStress)],
            topLinesAtRisk |->
              LET top == Slice0(SortDesc(results, Stresses(results)), 5)
              IN  [i \in 1..Len(top) |-> [id |-> top[i].id, stressPct |-> top[i].stressPct,
                                          overloadTemp |-> "N/A"]]]
      ELSE [lines |-> results, system |-> systemStats, topLinesAtRisk |-> << >>]

CurrentLine == crLines[crIdx]

\* loadGridData throws: a file that cannot be read (first revision) or a fetch
\* that is not ok (second revision); the catch of the handler answers 500
CrLoadFails ==
  /\ crPc = "start"
  /\ crRevision \in {1, 2}
  /\ ~crFiles.linesOk
  /\ crResponse' = [status |-> 500, body |-> [error |-> "Failed to load grid data"]]
  /\ crPc' = "done"
  /\ UNCHANGED <<crRevision, crRequest, crFiles, crLines, crIdx, crLo, crHi, crIter, crResults>>
  /\ UNCHANGED <<coreVars, angleVars, weatherVars, forecastVars, liveVars>>

CrLoadGridData ==
  /\ crPc = "start"
  /\ crRevision = 0 \/ crFiles.linesOk
  /\ crLines' = loadGridDataCR(crRevision, crFiles)
  /\ crIdx' = 1
  /\ crPc' = "lines"
  /\ UNCHANGED <<crRevision, crRequest, crFiles, crLo, crHi, crIter, crResults, crResponse>>
  /\ UNCHANGED <<coreVars, angleVars, weatherVars, forecastVars, liveVars>>

\* one pass of the loop over the lines up to the result, or up to the search
CrRateLine ==
  /\ crPc = "lines"
  /\ crIdx <= Len(crLines)
  /\ LET line == CurrentLine
         actualA == ActualOf(crRevision, crRequest.scenario, line)
         ratingAt0 == RatingAt(crRevision, crFiles, crRequest, line, DegToTicks(0))
         ratingAt60 == RatingAt(crRevision, crFiles, crRequest, line, DegToTicks(60))
         Push(overloadTemp) ==
           /\ crResults' = Append(crResults,
                                  LineResult(crRevision, crFiles, crRequest, line, overloadTemp))
           /\ crIdx' = crIdx + 1
           /\ UNCHANGED <<crPc, crLo, crHi, crIter>>
     IN  CASE crRevision = 1 -> Push(Undefined)
           [] crRevision = 2 /\ JsLt(ratingAt0, actualA) -> Push(0)
           [] crRevision = 2 /\ ~JsLt(ratingAt0, actualA) /\ JsGe(ratingAt60, actualA) -> Push(Null)
           [] OTHER ->
                /\ crLo' = 0
                /\ crHi' = SearchTop(crRevision, line)
                /\ crIter' = 0
                /\ crPc' = "search"
                /\ UNCHANGED <<crResults, crIdx>>
  /\ UNCHANGED <<crRevision, crRequest, crFiles, crLines, crResponse>>
  /\ UNCHANGED <<coreVars, angleVars, weatherVars, forecastVars, liveVars>>

\* one iteration of the search of solveOverloadTemp
CrBisect ==
  /\ crPc = "search"
  /\ crIter < Iterations(crRevision)
  /\ LET mid == (crLo + crHi) \div 2
         r == RatingAt(crRevision, crFiles, crRequest, CurrentLine, mid)
     IN  IF JsLt(r, ActualOf(crRevision, crRequest.scenario, CurrentLine))
         THEN crHi' = mid /\ crLo' = crLo
         ELSE crLo' = mid /\ crHi' = crHi
  /\ crIter' = crIter + 1
  /\ UNCHANGED <<crRevision, crRequest, crFiles, crPc, crLines, crIdx, crResults, crResponse>>
  /\ UNCHANGED <<coreVars, angleVars, weatherVars, forecastVars, liveVars>>

\* the search returns its midpoint and the result of the line is pushed
CrSolved ==
  /\ crPc = "search"
  /\ crIter = Iterations(crRevision)
  /\ crResults' = Append(crResults, LineResult(crRevision, crFiles, crRequest, CurrentLine,
                                               (crLo + crHi) \div 2))
  /\ crIdx' = crIdx + 1
  /\ crPc' = "lines"
  /\ UNCHANGED <<crRevision, crRequest, crFiles, crLines, crLo, crHi, crIter, crResponse>>
  /\ UNCHANGED <<coreVars, angleVars, weatherVars, forecastVars, liveVars>>

CrRespond ==
  /\ crPc = "lines"
  /\ crIdx > Len(crLines)
  /\ crResponse' = [status |-> 200, body |-> ResponseBody(crRevision, crResults)]
  /\ crPc' = "done"
  /\ UNCHANGED <<crRevision, crRequest, crFiles, crLines, crIdx, crLo, crHi, crIter, crResults>>
  /\ UNCHANGED <<coreVars, angleVars, weatherVars, forecastVars, liveVars>>

(***************************************************************************)
(* supabase/functions/weather-current/index.ts: the current weather        *)
(*                                                                         *)
(* Times are minutes.  A temperature and a wind speed of a response are    *)
(* tenths, the values the provider delivers are hundredths (tenths for the *)
(* direction).                                                             *)
(***************************************************************************)
CACHE_DURATION == 5

NoWeather == [provider |-> "none", tempC |-> 0, windMS |-> 0, windDeg |-> 0]

\* Math.round(x * 10) / 10 of hundredths, in tenths; Math.round(x) of tenths
RoundTenth(x) == (x + 5) \div 10

WeatherResult(current) ==
  [provider |-> "open-meteo", tempC |-> RoundTenth(current.temperature_2m),
   windMS |-> RoundTenth(current.wind_speed_10m),
   windDeg |-> RoundTenth(current.wind_direction_10m)]

Fallback == [provider |-> "fallback", tempC |-> 250, windMS |-> 30, windDeg |-> 90]

\* what the provider delivers
CurrentSamples ==
  [temperature_2m : {2534, 2875}, wind_speed_10m : {0, 312}, wind_direction_10m : {904, 3596}]
WeatherFetches ==
  {[kind |-> "ok", status |-> 200, current |-> c] : c \in CurrentSamples}
    \cup {[kind |-> "notOk", status |-> s, current |-> NoWeather] : s \in {429, 500}}
    \cup {[kind |-> "throws", status |-> 0, current |-> NoWeather]}

CacheFresh == wxCache.data.provider # "none" /\ wxNow - wxCache.timestamp < CACHE_DURATION

\* the cache is fresh: it is returned
WxServeCached ==
  /\ wxPc = "start"
  /\ CacheFresh
  /\ wxResponse' = [status |-> 200, body |-> wxCache.data]
  /\ wxPc' = "done"
  /\ UNCHANGED <<wxCache, wxNow, wxFetch>>
  /\ UNCHANGED <<coreVars, ratingVars, angleVars, forecastVars, liveVars>>

\* the provider answers: the result is cached and returned
WxServeFresh ==
  /\ wxPc = "start"
  /\ ~CacheFresh
  /\ wxFetch.kind = "ok"
  /\ wxCache' = [data |-> WeatherResult(wxFetch.current), timestamp |-> wxNow]
  /\ wxResponse' = [status |-> 200, body |-> WeatherResult(wxFetch.current)]
  /\ wxPc' = "done"
  /\ UNCHANGED <<wxNow, wxFetch>>
  /\ UNCHANGED <<coreVars, ratingVars, angleVars, forecastVars, liveVars>>

\* the fetch throws or is not ok: the catch returns the fallback with 200
WxServeFallback ==
  /\ wxPc = "start"
  /\ ~CacheFresh
  /\ wxFetch.kind # "ok"
  /\ wxResponse' = [status |-> 200, body |-> Fallback]
  /\ wxPc' = "done"
  /\ UNCHANGED <<wxCache, wxNow, wxFetch>>
  /\ UNCHANGED <<coreVars, ratingVars, angleVars, forecastVars, liveVars>>

(***************************************************************************)
(* unnamed/part_005: the forecast-analyze endpoint                         *)
(***************************************************************************)
\* the hours of the horizon the model follows
MaxHours == 3

\* what the call of compute-ratings for an hour delivers: a 200 response
\* with the stressPct of its lines, a response that is not ok, or a throw
HourOutcomes ==
  {[kind |-> "ok", lines |-> l] : l \in {<< >>, <<5000, 9620>>, <<10250, 9500, 9987>>}}
    \cup {[kind |-> "notOk", lines |-> << >>], [kind |-> "throws", lines |-> << >>]}

CountAtLeast(stresses, limit) == Cardinality({i \in 1..Len(stresses) : stresses[i] >= limit})

RECURSIVE MaxFrom(_, _)
\* the loop that keeps the largest stress above its start value 0
MaxFrom(stresses, maxStress) ==
  IF stresses = << >> THEN maxStress
  ELSE MaxFrom(Tail(stresses), IF Head(stresses) > maxStress THEN Head(stresses) ELSE maxStress)

\* the object pushed for an hour whose ratings were delivered
HourOf(i, stresses) ==
  [time |-> i,
   maxStress |-> Round1(MaxFrom(stresses, 0)),
   countOver95 |-> CountAtLeast(stresses, 9500),
   countOver100 |-> CountAtLeast(stresses, 10000),
   topLines |-> LET top == Slice0(SortDesc(stresses, stresses), 5)
                IN  [k \in 1..Len(top) |-> Round1(top[k])]]

RECURSIVE WorstFrom(_, _, _, _)
\* the loop over hours that keeps worstHourIndex and worstMaxStress
WorstFrom(hours, i, worstHourIndex, worstMaxStress) ==
  IF i > Len(hours) THEN [worstHourIndex |-> worstHourIndex, worstMaxStress |-> worstMaxStress]
  ELSE IF \/ hours[i].maxStress > worstMaxStress
          \/ /\ hours[i].maxStress = worstMaxStress
             /\ hours[i].countOver95 > hours[worstHourIndex + 1].countOver95
       THEN WorstFrom(hours, i + 1, i - 1, hours[i].maxStress)
       ELSE WorstFrom(hours, i + 1, worstHourIndex, worstMaxStress)

ForecastOf(hours) ==
  LET worst == WorstFrom(hours, 1, 0, 0)
  IN  [horizonHours |-> 24,
       hours |-> hours,
       summary |->
         [worstHourIndex |-> worst.worstHourIndex,
          worstMaxStress |-> Round1(worst.worstMaxStress),
          totalHoursOver95 |-> Cardinality({i \in 1..Len(hours) : hours[i].countOver95 > 0}),
          totalHoursOver100 |-> Cardinality({i \in 1..Len(hours) : hours[i].countOver100 > 0})]]

\* the minimal response of the catch
errorResponse == ForecastOf(<< >>)

NoForecast == [state |-> "none", data |-> errorResponse]
\* a forecast cached by an earlier request
CachedForecasts == {ForecastOf(<<HourOf(0, <<10250, 9500, 9987>>)>>)}

\* cached.expires > Date.now(): the cached response is returned
FcServeCached ==
  /\ fcPc = "start"
  /\ fcCache.state = "fresh"
  /\ fcResponse' = [status |-> 200, body |-> fcCache.data]
  /\ fcPc' = "done"
  /\ UNCHANGED <<fcCache, fcWeather, fcOutcomes, fcIdx, fcHours>>
  /\ UNCHANGED <<coreVars, ratingVars, angleVars, weatherVars, liveVars>>

\* the forecast of the provider is fetched and the loop over the hours starts
FcFetchWeather ==
  /\ fcPc = "start"
  /\ fcCache.state # "fresh"
  /\ fcWeather = "ok"
  /\ fcIdx' = 0
  /\ fcHours' = << >>
  /\ fcPc' = "hours"
  /\ UNCHANGED <<fcCache, fcWeather, fcOutcomes, fcResponse>>
  /\ UNCHANGED <<coreVars, ratingVars, angleVars, weatherVars, liveVars>>

\* the fetch throws or is not ok: the outer catch returns empty hours with 200
FcWeatherFails ==
  /\ fcPc = "start"
  /\ fcCache.state # "fresh"
  /\ fcWeather # "ok"
  /\ fcResponse' = [status |-> 200, body |-> errorResponse]
  /\ fcPc' = "done"
  /\ UNCHANGED <<fcCache, fcWeather, fcOutcomes, fcIdx, fcHours>>
  /\ UNCHANGED <<coreVars, ratingVars, angleVars, weatherVars, liveVars>>

\* one pass of the loop: the hour is pushed, or skipped when compute-ratings
\* is not ok (continue) or the call throws (inner catch)
FcHour ==
  /\ fcPc = "hours"
  /\ fcIdx < Len(fcOutcomes)
  /\ LET outcome == fcOutcomes[fcIdx + 1]
     IN  fcHours' = IF outcome.kind = "ok"
                    THEN Append(fcHours, HourOf(fcIdx, outcome.lines))
                    ELSE fcHours
  /\ fcIdx' = fcIdx + 1
  /\ UNCHANGED <<fcCache, fcWeather, fcOutcomes, fcPc, fcResponse>>
  /\ UNCHANGED <<coreVars, ratingVars, angleVars, weatherVars, liveVars>>

\* the summary is computed, the response cached and returned
FcRespond ==
  /\ fcPc = "hours"
  /\ fcIdx = Len(fcOutcomes)
  /\ fcCache' = [state |-> "fresh", data |-> ForecastOf(fcHours)]
  /\ fcResponse' = [status |-> 200, body |-> ForecastOf(fcHours)]
  /\ fcPc' = "done"
  /\ UNCHANGED <<fcWeather, fcOutcomes, fcIdx, fcHours>>
  /\ UNCHANGED <<coreVars, ratingVars, angleVars, weatherVars, liveVars>>

(***************************************************************************)
(* src/pages/Index.tsx: the environmental inputs, the modes and the calls  *)
(* of the edge functions                                                   *)
(*                                                                         *)
(* A call of supabase.functions.invoke is in flight from the render that   *)
(* issues it until its promise settles; calls settle in any order.  An     *)
(* action is a handler or the settling of a call, together with the render *)
(* and the effects that follow it.  Page temperatures are whole degrees.   *)
(***************************************************************************)

\* weatherData === null
NullWeather == [tempC |-> Null, windMS |-> Null, windDeg |-> Null]

\* the grid of the page: a chain of three lines
LiveGrid == <<1, 3, 5>>

\* what weather-current and an hour of forecast-analyze deliver
WeatherSample == [tempC |-> 30, windMS |-> 3, windDeg |-> 180]
ForecastHours == {[tempC |-> 40, windMS |-> 3, windDeg |-> 180]}

TemperatureSteps == {25, 40}
ScenarioTabs == {"nominal", "max"}

\* the per-line stress compute-ratings answers with: the stress of the
\* conditions, in proportion to the multiplier of the scenario
ProfileOfRequest(req) ==
  LET profile == IF req.tempC <= 25 THEN <<8000, 4550, 8000, 7820, 0>>
                 ELSE <<9580, 10000, 0, 4550, 6990>>
  IN  [i \in 1..Len(profile) |-> (profile[i] * scenarioMultiplier(req.scenario)) \div 100]

\* data of supabase.functions.invoke('compute-ratings', { body })
RatingsData(body) == RatingsResponse(LiveGrid, ProfileOfRequest(body))

\* the body the computeRatings effect sends
EnvBody(t, ws, wd, sc) == [tempC |-> t, windMS |-> ws, windDeg |-> wd, scenario |-> sc]

CallsInFlight == Cardinality(ratingsCalls) + Cardinality(previewCalls) + weatherCalls

\* the computeRatings effect after a render with these inputs: it runs when a
\* dependency changed, and returns early during a forecast preview
ComputeRatingsEffect(t, ws, wd, sc, previewActive) ==
  ratingsCalls' =
    IF <<t, ws, wd, sc>> # <<temperature, windSpeed, windDirection, scenario>>
       /\ Len(lines) # 0 /\ ~previewActive
    THEN ratingsCalls \cup {EnvBody(t, ws, wd, sc)}
    ELSE ratingsCalls

\* the render of the memo after setLines, setStats and setBaseStress
RenderWith(newLines, newStats, newBase) ==
  LET m == AdjustedMemo(newLines, buses, newStats, newBase, cutLines) IN
  /\ adjustedLines' = m.adjustedLines
  /\ adjustedStats' = m.adjustedStats

pageFixed == <<buses, lineRegionMap, outageMode, cutLines, cutRegions, selectedLine,
               selectedRegion>>

\* onTemperatureChange={setTemperature}: the slider is enabled in manual mode
SetTemperature(t) ==
  /\ mode = "manual"
  /\ t # temperature
  /\ CallsInFlight < MaxInFlight
  /\ temperature' = t
  /\ ComputeRatingsEffect(t, windSpeed, windDirection, scenario, forecastPreviewActive)
  /\ UNCHANGED <<windSpeed, windDirection, scenario, mode, weatherData, isLoadingWeather,
                 forecastPreviewActive, previewCalls, weatherCalls>>
  /\ UNCHANGED <<pageVars, simVars, aggVars, endpointVars, ratingVars, angleVars,
                 weatherVars, forecastVars>>
  /\ UNCHANGED toasts

\* onScenarioChange={setScenario}
SetScenario(sc) ==
  /\ sc # scenario
  /\ CallsInFlight < MaxInFlight
  /\ scenario' = sc
  /\ ComputeRatingsEffect(temperature, windSpeed, windDirection, sc, forecastPreviewActive)
  /\ UNCHANGED <<temperature, windSpeed, windDirection, mode, weatherData, isLoadingWeather,
                 forecastPreviewActive, previewCalls, weatherCalls>>
  /\ UNCHANGED <<pageVars, simVars, aggVars, endpointVars, ratingVars, angleVars,
                 weatherVars, forecastVars>>
  /\ UNCHANGED toasts

\* handleModeChange, and the effect that fetches the weather on entering
\* the mode 'current'
handleModeChange(newMode) ==
  /\ newMode # mode
  /\ CallsInFlight < MaxInFlight
  /\ mode' = newMode
  /\ weatherData' = IF newMode = "manual" THEN NullWeather ELSE weatherData
  /\ forecastPreviewActive' = FALSE
  /\ IF newMode = "current"
     THEN weatherCalls' = weatherCalls + 1 /\ isLoadingWeather' = TRUE
     ELSE UNCHANGED <<weatherCalls, isLoadingWeather>>
  /\ UNCHANGED <<temperature, windSpeed, windDirection, scenario, ratingsCalls, previewCalls>>
  /\ UNCHANGED <<pageVars, simVars, aggVars, endpointVars, ratingVars, angleVars,
                 weatherVars, forecastVars>>
  /\ UNCHANGED toasts

\* onRefreshWeather={fetchWeather}: the button of the mode 'current'
RefreshWeather ==
  /\ mode = "current"
  /\ ~isLoadingWeather
  /\ CallsInFlight < MaxInFlight
  /\ weatherCalls' = weatherCalls + 1
  /\ isLoadingWeather' = TRUE
  /\ UNCHANGED <<temperature, windSpeed, windDirection, scenario, mode, weatherData,
                 forecastPreviewActive, ratingsCalls, previewCalls>>
  /\ UNCHANGED <<pageVars, simVars, aggVars, endpointVars, ratingVars, angleVars,
                 weatherVars, forecastVars>>
  /\ UNCHANGED toasts

\* fetchWeather after its await, with data
WeatherArrives ==
  /\ weatherCalls > 0
  /\ weatherCalls' = weatherCalls - 1
  /\ weatherData' = WeatherSample
  /\ temperature' = WeatherSample.tempC
  /\ windSpeed' = WeatherSample.windMS
  /\ windDirection' = WeatherSample.windDeg
  /\ isLoadingWeather' = FALSE
  /\ ComputeRatingsEffect(WeatherSample.tempC, WeatherSample.windMS, WeatherSample.windDeg,
                          scenario, forecastPreviewActive)
  /\ UNCHANGED <<scenario, mode, forecastPreviewActive, previewCalls>>
  /\ UNCHANGED <<pageVars, simVars, aggVars, endpointVars, ratingVars, angleVars,
                 weatherVars, forecastVars>>
  /\ UNCHANGED toasts

\* fetchWeather after its await, with an error: the catch and the finally
WeatherFails ==
  /\ weatherCalls > 0
  /\ weatherCalls' = weatherCalls - 1
  /\ isLoadingWeather' = FALSE
  /\ UNCHANGED <<temperature, windSpeed, windDirection, scenario, mode, weatherData,
                 forecastPreviewActive, ratingsCalls, previewCalls>>
  /\ UNCHANGED <<pageVars, simVars, aggVars, endpointVars, ratingVars, angleVars,
                 weatherVars, forecastVars>>
  /\ toasts' = toasts \cup {"Weather Fetch Failed"}

\* computeRatings of the effect after its await, with data
RatingsArrive(body) ==
  /\ body \in ratingsCalls
  /\ ratingsCalls' = ratingsCalls \ {body}
  /\ LET data == RatingsData(body)
         newBase == BaseStressAfterRatings(data)
         newLines == LinesAfterRatings(lines, data)
         newStats == StatsAfterRatings(data)
     IN  /\ baseStress' = newBase
         /\ lines' = newLines
         /\ stats' = newStats
         /\ RenderWith(newLines, newStats, newBase)
  /\ UNCHANGED pageFixed
  /\ UNCHANGED <<temperature, windSpeed, windDirection, scenario, mode, weatherData,
                 isLoadingWeather, forecastPreviewActive, previewCalls, weatherCalls>>
  /\ UNCHANGED <<simVars, aggVars, endpointVars, ratingVars, angleVars, weatherVars,
                 forecastVars>>
  /\ UNCHANGED toasts

\* computeRatings of the effect after its await, with an error: the toast
RatingsFail(body) ==
  /\ body \in ratingsCalls
  /\ ratingsCalls' = ratingsCalls \ {body}
  /\ UNCHANGED <<temperature, windSpeed, windDirection, scenario, mode, weatherData,
                 isLoadingWeather, forecastPreviewActive, previewCalls, weatherCalls>>
  /\ UNCHANGED <<pageVars, simVars, aggVars, endpointVars, ratingVars, angleVars,
                 weatherVars, forecastVars>>
  /\ toasts' = toasts \cup {"Failed to compute line ratings."}

\* handlePreviewForecastHour up to its await: the drawer of the forecast mode
handlePreviewForecastHour(hour) ==
  /\ mode = "forecast"
  /\ CallsInFlight < MaxInFlight
  /\ forecastPreviewActive' = TRUE
  /\ previewCalls' = previewCalls \cup {EnvBody(hour.tempC, hour.windMS, hour.windDeg, scenario)}
  /\ UNCHANGED <<temperature, windSpeed, windDirection, scenario, mode, weatherData,
                 isLoadingWeather, ratingsCalls, weatherCalls>>
  /\ UNCHANGED <<pageVars, simVars, aggVars, endpointVars, ratingVars, angleVars,
                 weatherVars, forecastVars>>
  /\ UNCHANGED toasts

\* handlePreviewForecastHour after its await, with data: setLines and setStats
PreviewArrives(body) ==
  /\ body \in previewCalls
  /\ previewCalls' = previewCalls \ {body}
  /\ LET data == RatingsData(body)
         newLines == LinesAfterRatings(lines, data)
         newStats == StatsAfterRatings(data)
     IN  /\ lines' = newLines
         /\ stats' = newStats
         /\ RenderWith(newLines, newStats, baseStress)
  /\ UNCHANGED baseStress
  /\ UNCHANGED pageFixed
  /\ UNCHANGED <<temperature, windSpeed, windDirection, scenario, mode, weatherData,
                 isLoadingWeather, forecastPreviewActive, ratingsCalls, weatherCalls>>
  /\ UNCHANGED <<simVars, aggVars, endpointVars, ratingVars, angleVars, weatherVars,
                 forecastVars>>
  /\ UNCHANGED toasts

\* handlePreviewForecastHour after its await, with an error: the toast
PreviewFails(body) ==
  /\ body \in previewCalls
  /\ previewCalls' = previewCalls \ {body}
  /\ UNCHANGED <<temperature, windSpeed, windDirection, scenario, mode, weatherData,
                 isLoadingWeather, forecastPreviewActive, ratingsCalls, weatherCalls>>
  /\ UNCHANGED <<pageVars, simVars, aggVars, endpointVars, ratingVars, angleVars,
                 weatherVars, forecastVars>>
  /\ toasts' = toasts \cup {"Failed to compute forecast ratings"}

\* handleBackToLive of the forecast drawer, and the effect on the inputs it sets
handleBackToLive ==
  /\ forecastPreviewActive
  /\ CallsInFlight < MaxInFlight
  /\ forecastPreviewActive' = FALSE
  /\ IF mode = "current" /\ weatherData # NullWeather
     THEN /\ temperature' = weatherData.tempC
          /\ windSpeed' = weatherData.windMS
          /\ windDirection' = weatherData.windDeg
     ELSE UNCHANGED <<temperature, windSpeed, windDirection>>
  /\ ComputeRatingsEffect(temperature', windSpeed', windDirection', scenario, FALSE)
  /\ UNCHANGED <<scenario, mode, weatherData, isLoadingWeather, previewCalls, weatherCalls>>
  /\ UNCHANGED <<pageVars, simVars, aggVars, endpointVars, ratingVars, angleVars,
                 weatherVars, forecastVars>>
  /\ UNCHANGED toasts

\* the page once the grid is loaded and the first response of compute-ratings
\* is applied, in manual mode under the initial inputs
InitLivePage ==
  LET data == RatingsData(EnvBody(25, 5, 90, "nominal")) IN
  /\ temperature = 25
  /\ windSpeed = 5
  /\ windDirection = 90
  /\ scenario = "nominal"
  /\ mode = "manual"
  /\ weatherData = NullWeather
  /\ isLoadingWeather = FALSE
  /\ forecastPreviewActive = FALSE
  /\ ratingsCalls = {}
  /\ previewCalls = {}
  /\ weatherCalls = 0
  /\ toasts = {}
  /\ lines = LinesAfterRatings(InitialLines(LiveGrid), data)
  /\ buses = AllBuses
  /\ stats = StatsAfterRatings(data)
  /\ baseStress = BaseStressAfterRatings(data)
  /\ lineRegionMap = assignLinesToRegions(InitialLines(LiveGrid), AllBuses, BusRegionMap)
  /\ outageMode = FALSE
  /\ cutLines = <<>>
  /\ cutRegions = {}
  /\ selectedLine = NoSelection
  /\ selectedRegion = NoSelection
  /\ adjustedLines = lines
  /\ adjustedStats = stats

IdleLive ==
  /\ temperature = 25
  /\ windSpeed = 5
  /\ windDirection = 90
  /\ scenario = "nominal"
  /\ mode = "idle"
  /\ weatherData = NullWeather
  /\ isLoadingWeather = FALSE
  /\ forecastPreviewActive = FALSE
  /\ ratingsCalls = {}
  /\ previewCalls = {}
  /\ weatherCalls = 0
  /\ toasts = {}

(***************************************************************************)
(* Specifications                                                          *)
(***************************************************************************)

IdlePage ==
  /\ lines = <<>>
  /\ buses = <<>>
  /\ stats = NoStats
  /\ baseStress = EmptyMap
  /\ lineRegionMap = EmptyMap
  /\ outageMode = FALSE
  /\ cutLines = <<>>
  /\ cutRegions = {}
  /\ selectedLine = NoSelection
  /\ selectedRegion = NoSelection
  /\ adjustedLines = <<>>
  /\ adjustedStats = NoStats

IdleSim ==
  /\ simLines = <<>>
  /\ simCut = {}
  /\ simulator = NewSimulator
  /\ simAdjusted = EmptyMap
  /\ simStats = NoStats
  /\ simPc = "idle"

IdleAgg ==
  /\ entries = <<>>
  /\ clientStats = NoStats
  /\ serverStats = NoStats
  /\ aggDone = {"client", "server"}

IdleEndpoint ==
  /\ revision = 2
  /\ request = [tempC |-> 25, windMS |-> 5, windDeg |-> 90]
  /\ fetched = [kind |-> "none"]
  /\ pc = "idle"
  /\ grid = <<>>
  /\ busToLines = EmptyMap
  /\ outageIdx = 0
  /\ contingencies = <<>>
  /\ response = [status |-> 0, body |-> [pending |-> TRUE]]

IdleRatings ==
  /\ crRevision = 2
  /\ crRequest = [tempC |-> 25, windMS |-> 50, windDeg |-> 90, scenario |-> "nominal"]
  /\ crFiles = [linesOk |-> TRUE, libraryOk |-> TRUE, voltagesOk |-> TRUE]
  /\ crPc = "idle"
  /\ crLines = <<>>
  /\ crIdx = 0
  /\ crLo = 0
  /\ crHi = 0
  /\ crIter = 0
  /\ crResults = <<>>
  /\ crResponse = [status |-> 0, body |-> [pending |-> TRUE]]

IdleAngle ==
  /\ angleIn = [windDeg |-> 0, azimuth |-> 0]
  /\ angleOut = [ratings |-> 0, mock |-> 0, contingency |-> 0]

IdleWeather ==
  /\ wxCache = [data |-> NoWeather, timestamp |-> 0]
  /\ wxNow = 0
  /\ wxFetch = [kind |-> "throws", status |-> 0, current |-> NoWeather]
  /\ wxPc = "idle"
  /\ wxResponse = [status |-> 0, body |-> NoWeather]

IdleForecast ==
  /\ fcCache = NoForecast
  /\ fcWeather = "ok"
  /\ fcOutcomes = << >>
  /\ fcIdx = 0
  /\ fcHours = << >>
  /\ fcPc = "idle"
  /\ fcResponse = [status |-> 0, body |-> errorResponse]

IdleCore == IdlePage /\ IdleSim /\ IdleAgg /\ IdleEndpoint
IdleExt == IdleRatings /\ IdleAngle /\ IdleWeather /\ IdleForecast /\ IdleLive

\* the page and its outage controls, under fixed environmental inputs
InitOutage == InitPage /\ IdleSim /\ IdleAgg /\ IdleEndpoint /\ IdleExt

NextOutage ==
  \/ \E enabled \in BOOLEAN : SetOutageMode(enabled)
  \/ \E i \in 1..MaxLines : handleLineClick(i)
  \/ handleRestoreAll
  \/ \E r \in RegionIds : handleRegionCut(r)
  \/ \E r \in RegionIds : handleRegionRestore(r)
  \/ \E r \in RegionIds : handleRegionClick(r)

SpecOutage == InitOutage /\ [][NextOutage]_vars

\* the simulator on every grid, profile and cut set of the bounds
InitSimulator ==
  /\ \E g \in Grids, profile \in StressProfiles :
       /\ simLines = SimLinesOf(g, profile)
       /\ simCut \in SUBSET IdsOf(simLines)
  /\ simulator = NewSimulator
  /\ simAdjusted = EmptyMap
  /\ simStats = NoStats
  /\ simPc = "new"
  /\ IdlePage /\ IdleAgg /\ IdleEndpoint /\ IdleExt

NextSimulator == Construct \/ CalculateAdjusted \/ CalculateStats

SpecSimulator == InitSimulator /\ [][NextSimulator]_vars

\* the aggregators on every sequence of entries of the bounds
InitAggregate ==
  /\ \E n \in 0..MaxEntries : entries \in [1..n -> StressSamples \cup DegenerateStress \cup {Null}]
  /\ clientStats = NoStats
  /\ serverStats = NoStats
  /\ aggDone = {}
  /\ IdlePage /\ IdleSim /\ IdleEndpoint /\ IdleExt

NextAggregate == ClientAggregate \/ ServerAggregate

SpecAggregate == InitAggregate /\ [][NextAggregate]_vars

\* one request to the contingency endpoint
InitEndpoint == InitContingency /\ IdlePage /\ IdleSim /\ IdleAgg /\ IdleExt

NextEndpoint ==
  \/ LoadFails
  \/ LoadGridData
  \/ EmptyGrid
  \/ BuildAdjacency
  \/ OutageStep
  \/ Respond

SpecContingency == InitEndpoint /\ [][NextEndpoint]_vars

\* the three implementations of the attack angle on every pair of sample directions
InitAngle ==
  /\ angleIn \in [windDeg : AngleSamples, azimuth : AngleSamples]
  /\ angleOut = NoAngles
  /\ IdleCore /\ IdleRatings /\ IdleWeather /\ IdleForecast /\ IdleLive

NextAngle == AttackRatings \/ AttackMock \/ AttackContingency

SpecAngle == InitAngle /\ [][NextAngle]_vars

\* the requests the rating endpoint is given
TempSamples == {0, 25, 50, 80}
WindSamples == {0, 50}
WindDegSamples == {0, 90, 270}
Scenarios == {"min", "nominal", "max"}

\* one request to the rating endpoint; the first revision reads three files,
\* the second fetches them together, the mock reads none
InitRatings ==
  /\ crRevision \in {0, 1, 2}
  /\ crRequest \in [tempC : TempSamples, windMS : WindSamples, windDeg : WindDegSamples,
                    scenario : Scenarios]
  /\ crFiles \in [linesOk : BOOLEAN, libraryOk : BOOLEAN, voltagesOk : BOOLEAN]
  /\ crRevision = 0 => crFiles = [linesOk |-> TRUE, libraryOk |-> TRUE, voltagesOk |-> TRUE]
  /\ crRevision = 2 => crFiles.libraryOk /\ crFiles.voltagesOk
  /\ crPc = "start"
  /\ crLines = <<>>
  /\ crIdx = 0
  /\ crLo = 0
  /\ crHi = 0
  /\ crIter = 0
  /\ crResults = <<>>
  /\ crResponse = [status |-> 0, body |-> [pending |-> TRUE]]
  /\ IdleCore /\ IdleAngle /\ IdleWeather /\ IdleForecast /\ IdleLive

NextRatings ==
  \/ CrLoadFails
  \/ CrLoadGridData
  \/ CrRateLine
  \/ CrBisect
  \/ CrSolved
  \/ CrRespond

SpecRatings == InitRatings /\ [][NextRatings]_vars

\* one request to weather-current: the cache is empty or holds a result
\* stored at minute 0, the request comes at minute 2, 5 or 9
InitWeather ==
  /\ wxCache \in {[data |-> NoWeather, timestamp |-> 0]}
                  \cup {[data |-> WeatherResult(c), timestamp |-> 0] : c \in CurrentSamples}
  /\ wxNow \in {2, 5, 9}
  /\ wxFetch \in WeatherFetches
  /\ wxPc = "start"
  /\ wxResponse = [status |-> 0, body |-> NoWeather]
  /\ IdleCore /\ IdleRatings /\ IdleAngle /\ IdleForecast /\ IdleLive

NextWeather == WxServeCached \/ WxServeFresh \/ WxServeFallback

\* one request to forecast-analyze over a horizon of up to MaxHours hours
InitForecast ==
  /\ fcCache \in {NoForecast} \cup {[state |-> st, data |-> f] :
                                      st \in {"fresh", "expired"}, f \in CachedForecasts}
  /\ fcWeather \in {"ok", "notOk", "throws"}
  /\ \E n \in 0..MaxHours : fcOutcomes \in [1..n -> HourOutcomes]
  /\ fcIdx = 0
  /\ fcHours = << >>
  /\ fcPc = "start"
  /\ fcResponse = [status |-> 0, body |-> errorResponse]
  /\ IdleCore /\ IdleRatings /\ IdleAngle /\ IdleWeather /\ IdleLive

NextForecast == FcServeCached \/ FcFetchWeather \/ FcWeatherFails \/ FcHour \/ FcRespond

\* the endpoints that load weather, topology or reference data
InitServices == InitWeather \/ InitForecast \/ InitRatings

NextServices == NextWeather \/ NextForecast \/ NextRatings

SpecServices == InitServices /\ [][NextServices]_vars

\* the page under changing inputs and modes, with no line cut
InitLive ==
  InitLivePage /\ IdleSim /\ IdleAgg /\ IdleEndpoint
    /\ IdleRatings /\ IdleAngle /\ IdleWeather /\ IdleForecast

CallSettles ==
  \/ WeatherArrives
  \/ WeatherFails
  \/ \E body \in ratingsCalls : RatingsArrive(body)
  \/ \E body \in ratingsCalls : RatingsFail(body)
  \/ \E body \in previewCalls : PreviewArrives(body)
  \/ \E body \in previewCalls : PreviewFails(body)

NextLive ==
  \/ \E t \in TemperatureSteps : SetTemperature(t)
  \/ \E sc \in ScenarioTabs : SetScenario(sc)
  \/ \E newMode \in {"manual", "current", "forecast"} : handleModeChange(newMode)
  \/ RefreshWeather
  \/ \E hour \in ForecastHours : handlePreviewForecastHour(hour)
  \/ handleBackToLive
  \/ CallSettles

SpecLive == InitLive /\ [][NextLive]_vars

\* the live page with the outage mode, all calls succeeding: lines are cut and
\* restored by clicks while the temperature changes and previews are shown
NextPreviewOutage ==
  \/ \E newMode \in {"manual", "forecast"} : handleModeChange(newMode)
  \/ \E t \in TemperatureSteps : SetTemperature(t)
  \/ \E body \in ratingsCalls : RatingsArrive(body)
  \/ \E hour \in ForecastHours : handlePreviewForecastHour(hour)
  \/ \E body \in previewCalls : PreviewArrives(body)
  \/ handleBackToLive
  \/ SetOutageMode(TRUE)
  \/ \E i \in 1..MaxLines : handleLineClick(i)

SpecPreviewOutage == InitLive /\ [][NextPreviewOutage]_vars

\* a call of weather-current leaves the calls in flight: of the steps of
\* NextLive these are WeatherArrives and WeatherFails
WeatherCallLeaves == weatherCalls > 0 /\ weatherCalls' = weatherCalls - 1

\* a call of the computeRatings effect leaves the calls in flight: of the steps
\* of NextLive these are RatingsArrive and RatingsFail
RatingsCallLeaves == \E body \in ratingsCalls : ratingsCalls' = ratingsCalls \ {body}

\* a call of handlePreviewForecastHour leaves the calls in flight: of the steps
\* of NextLive these are PreviewArrives and PreviewFails
PreviewCallLeaves == \E body \in previewCalls : previewCalls' = previewCalls \ {body}

\* every call in flight settles: the promise of supabase.functions.invoke
\* resolves or rejects
SpecLiveFair ==
  /\ SpecLive
  /\ WF_weatherCalls(WeatherCallLeaves)
  /\ WF_ratingsCalls(RatingsCallLeaves)
  /\ WF_previewCalls(PreviewCallLeaves)

Init ==
  \/ InitOutage \/ InitSimulator \/ InitAggregate \/ InitEndpoint
  \/ InitAngle \/ InitServices \/ InitLive

Next ==
  \/ NextOutage \/ NextSimulator \/ NextAggregate \/ NextEndpoint
  \/ NextAngle \/ NextServices \/ NextLive

Spec == Init /\ [][Next]_vars

(***************************************************************************)
(* Claims on the outage simulator                                          *)
(***************************************************************************)

\* the endpoint buses of a line, as parsed from its name
EndpointsOf(line) ==
  LET m == NameMatch(line.name) IN IF m.matched THEN {m.bus1, m.bus2} ELSE {}

\* the other lines of the cut set that share at least one endpoint bus
DistinctIncidentCuts(i) ==
  {j \in 1..Len(simLines) :
     /\ j # i
     /\ simLines[j].id \in simCut
     /\ EndpointsOf(simLines[i]) \cap EndpointsOf(simLines[j]) # {}}

SimAdjustedDone == simPc \in {"adjusted", "stats"}

\* C1: every line that is not cut gets baseline x (1 + min(0.30 k, 0.60)), k the
\* number of distinct other cut lines that share an endpoint bus with it, a cut
\* line that shares both buses counting once
C1_AdjustedStressFormula ==
  SimAdjustedDone =>
    \A i \in 1..Len(simLines) :
      simLines[i].id \notin simCut =>
        simAdjusted[simLines[i].id] =
          (simLines[i].stress * (10 + MinOf(3 * Cardinality(DistinctIncidentCuts(i)), 6))) \div 10

SimActiveIdx == {i \in 1..Len(simLines) : simLines[i].id \notin simCut}

SimValue(i) == simAdjusted[simLines[i].id]

\* the sum of the values of a function over a finite set
RECURSIVE SumOver(_, _)
SumOver(S, f) ==
  IF S = {} THEN 0 ELSE LET x == CHOOSE x \in S : TRUE IN f[x] + SumOver(S \ {x}, f)

SimSquare(i) == SimValue(i) * SimValue(i)

\* C2: a cut line has adjusted stress null, and the four band counts, the
\* average, the maximum and the SSI are those of the lines that are not cut
C2_CutLinesExcluded ==
  /\ SimAdjustedDone => \A i \in 1..Len(simLines) :
       simLines[i].id \in simCut => simAdjusted[simLines[i].id] = Null
  /\ simPc = "stats" =>
       LET n == Cardinality(SimActiveIdx) IN
       /\ simStats.bands.low = Cardinality({i \in SimActiveIdx : SimValue(i) < 7000})
       /\ simStats.bands.medium =
            Cardinality({i \in SimActiveIdx : SimValue(i) >= 7000 /\ SimValue(i) < 9000})
       /\ simStats.bands.high =
            Cardinality({i \in SimActiveIdx : SimValue(i) >= 9000 /\ SimValue(i) < 10000})
       /\ simStats.bands.overload = Cardinality({i \in SimActiveIdx : SimValue(i) >= 10000})
       /\ simStats.avgStress = IF n = 0 THEN 0 ELSE SumOver(SimActiveIdx, [i \in SimActiveIdx |-> SimValue(i)]) \div n
       /\ simStats.maxStress =
            IF n = 0 THEN 0
            ELSE CHOOSE m \in {SimValue(i) : i \in SimActiveIdx} :
                   \A i \in SimActiveIdx : SimValue(i) <= m
       /\ simStats.ssi = IF n = 0 THEN 0 ELSE SumOver(SimActiveIdx, [i \in SimActiveIdx |-> SimSquare(i)]) \div (100 * n)

\* the stats of a grid with lines cut and lines in service
C2_Witness ==
  /\ simPc = "stats"
  /\ simCut # {}
  /\ SimActiveIdx # {}
  /\ simStats.maxStress > 0

\* C5: with an empty cut set every line, parsed or not, keeps its baseline stress
C5_EmptyCutSetIsBaseline ==
  (SimAdjustedDone /\ simCut = {}) =>
    \A i \in 1..Len(simLines) : simAdjusted[simLines[i].id] = simLines[i].stress

\* an empty cut set on a grid with a parsed and an unparsed line under stress
C5_Witness ==
  /\ SimAdjustedDone
  /\ simCut = {}
  /\ \E i, j \in 1..Len(simLines) :
       /\ simLines[i].id \in DOMAIN simulator.lineToBuses
       /\ simLines[j].id \notin DOMAIN simulator.lineToBuses
       /\ simLines[i].stress > 0
       /\ simLines[j].stress > 0

(***************************************************************************)
(* Claims on the outage state of the page                                  *)
(***************************************************************************)

\* C3: under unchanged environmental inputs the cut and restore operations
\* leave the lines, the stats and the stored baseline alone, and whenever the
\* cut set is empty again the displayed lines and stats are that baseline
C3_RestoreAllIsBaseline ==
  /\ [](cutLines = <<>> =>
          /\ adjustedLines = lines
          /\ adjustedStats = stats
          /\ \A i \in 1..Len(lines) :
               adjustedLines[i].stress = JsOr(MapGet(baseStress, lines[i].id), 0))
  /\ [][lines' = lines /\ stats' = stats /\ baseStress' = baseStress]_vars

\* every line of a cut region has been restored one by one: the cut set is
\* empty after cuts
C3_Witness ==
  /\ cutLines = <<>>
  /\ outageMode
  /\ cutRegions # {}
  /\ \A r \in cutRegions : \E id \in DOMAIN lineRegionMap : lineRegionMap[id] = r
  /\ \E i \in 1..Len(lines) : lines[i].stress > 0

LineIndex(id) == CHOOSE i \in 1..Len(lines) : lines[i].id = id

\* the cut lines in the order of the lines of the grid
CanonicalCuts ==
  LET idx == SetToSeq({LineIndex(id) : id \in SeqToSet(cutLines)})
  IN [k \in 1..Len(idx) |-> lines[idx[k]].id]

\* C4: what is displayed is computed from the stored baseline and the cut set
\* alone: it is what the baseline gives for the cut set taken in the order of the
\* grid, whatever sequence of operations produced the cut set
C4_AdjustedFromBaseline ==
  LET m == AdjustedMemo(lines, buses, stats, baseStress, CanonicalCuts) IN
  /\ adjustedLines = m.adjustedLines
  /\ adjustedStats = m.adjustedStats

\* two lines cut in the order opposite to that of the grid, a third under
\* adjusted stress
C4_Witness ==
  /\ Len(buses) > 0
  /\ Len(cutLines) >= 2
  /\ LineIndex(cutLines[1]) > LineIndex(cutLines[2])
  /\ \E i \in 1..Len(lines) : ~adjustedLines[i].isCut /\ adjustedLines[i].stress > lines[i].stress

(***************************************************************************)
(* Claims on the contingency endpoint                                      *)
(***************************************************************************)

\* the endpoint has answered with a list of contingencies
Answered == pc = "done" /\ "contingencies" \in DOMAIN response.body

Returned == response.body.contingencies

\* the stress the handler computed for the line an issue names
ComputedStress(issue) ==
  NeighborStress(revision, request, CHOOSE N \in SeqToSet(grid) : N.name = issue.line)

SortedByMaxStress(conts) ==
  \A i, j \in 1..Len(conts) : i < j => conts[i].maxStress >= conts[j].maxStress

SortedByStress(issues) ==
  \A i, j \in 1..Len(issues) : i < j => issues[i].stress >= issues[j].stress

\* C6, as claimed: the returned list has at most 10 entries, is sorted by
\* non-increasing maxStress, and every entry has an issue whose reported stress
\* is above 80
C6_TopTenReportedAbove80 ==
  Answered =>
    /\ Len(Returned) <= 10
    /\ SortedByMaxStress(Returned)
    /\ \A i \in 1..Len(Returned) :
         \E k \in 1..Len(Returned[i].issues) : Returned[i].issues[k].stress > 8000

\* C6, amended: the returned list has at most 10 entries, is sorted by
\* non-increasing maxStress, and every entry has an issue whose stress before the
\* rounding to one decimal is above 80, so that its reported stress is at least 80
C6_TopTenComputedAbove80 ==
  Answered =>
    /\ Len(Returned) <= 10
    /\ SortedByMaxStress(Returned)
    /\ \A i \in 1..Len(Returned) :
         \E k \in 1..Len(Returned[i].issues) :
           /\ ComputedStress(Returned[i].issues[k]) > 8000
           /\ Returned[i].issues[k].stress = Round1(ComputedStress(Returned[i].issues[k]))
           /\ Returned[i].issues[k].stress >= 8000

\* more than 10 contingencies were found, and one of the 10 returned has an
\* issue reported at 80.0
C6_Witness ==
  /\ Answered
  /\ Len(contingencies) > 10
  /\ Len(Returned) = 10
  /\ \E i \in 1..Len(Returned) : \E k \in 1..Len(Returned[i].issues) :
       Returned[i].issues[k].stress = 8000

\* the largest stress reported in a list of issues
MaxReported(issues) ==
  CHOOSE m \in {issues[k].stress : k \in 1..Len(issues)} :
    \A k \in 1..Len(issues) : issues[k].stress <= m

\* C7, as claimed: maxStress is the largest stress reported in the issues, and
\* the issues are sorted by non-increasing stress
C7_MaxStressIsMaxReported ==
  Answered =>
    \A i \in 1..Len(Returned) :
      /\ Returned[i].maxStress = MaxReported(Returned[i].issues)
      /\ SortedByStress(Returned[i].issues)

\* C7, amended: maxStress is the largest stress of the issues before the
\* rounding to one decimal, so that maxStress rounded to one decimal is the
\* largest stress reported, and the issues are sorted by non-increasing stress
C7_MaxStressIsMaxComputed ==
  Answered =>
    \A i \in 1..Len(Returned) :
      /\ \A k \in 1..Len(Returned[i].issues) :
           ComputedStress(Returned[i].issues[k]) <= Returned[i].maxStress
      /\ \E k \in 1..Len(Returned[i].issues) :
           ComputedStress(Returned[i].issues[k]) = Returned[i].maxStress
      /\ Round1(Returned[i].maxStress) = MaxReported(Returned[i].issues)
      /\ SortedByStress(Returned[i].issues)

\* a returned contingency with two issues of different stress, the first found
\* being the smaller, and a maxStress that the rounding changes
C7_Witness ==
  /\ Answered
  /\ \E i \in 1..Len(Returned) :
       /\ Len(Returned[i].issues) >= 2
       /\ Returned[i].issues[1].stress > Returned[i].issues[2].stress
       /\ Returned[i].maxStress # Returned[i].issues[1].stress
       /\ \E c \in 1..Len(contingencies) :
            /\ contingencies[c].outage = Returned[i].outage
            /\ LET O == CHOOSE L \in SeqToSet(grid) : L.name = Returned[i].outage
                   first == GridGet(grid, NeighborsOf(busToLines, O)[1])
               IN first.name # Returned[i].issues[1].line

\* the buses a line ends at: the bus numbers that could be read
EndpointBuses(L) == {L.bus0, L.bus1} \ {-1}

\* the other lines that share an endpoint bus with the outage and exceed 80
\* with the current increased by 30%
ExpectedIssues(O) ==
  {N \in SeqToSet(grid) :
     /\ N.id # O.id
     /\ EndpointBuses(N) \cap EndpointBuses(O) # {}
     /\ NeighborStress(revision, request, N) > 8000}

IssueLines(entry) == {entry.issues[k].line : k \in 1..Len(entry.issues)}

\* C8: for every outage evaluated, its issues are exactly the other lines that
\* share an endpoint bus with it and exceed 80 with the current increased by
\* 30%, and an outage without such a line has no entry
C8_IssuesAreStressedNeighbors ==
  pc \in {"outages", "done"} =>
    \A o \in 1..Len(grid) : o < outageIdx =>
      LET O == grid[o]
          found == {c \in 1..Len(contingencies) : contingencies[c].outage = O.name}
      IN IF ExpectedIssues(O) = {} THEN found = {}
         ELSE /\ Cardinality(found) = 1
              /\ \A c \in found :
                   /\ IssueLines(contingencies[c]) = {N.name : N \in ExpectedIssues(O)}
                   /\ Len(contingencies[c].issues) = Cardinality(ExpectedIssues(O))

\* the topology could not be loaded: a fetch was rejected or answered with a
\* non-OK status, a required column is missing, or no line was parsed
TopologyNotLoaded ==
  \/ fetched.kind = "rejected"
  \/ ~fetched.ok
  \/ ~(NeedL \subseteq fetched.linesHeader)
  \/ ~(NeedF \subseteq fetched.flowsHeader)
  \/ Len(parseGrid(fetched.linesRows, fetched.flowsRows)) = 0

\* C9: when the topology could not be loaded the endpoint answers with an error
\* response that carries an error field, never with a list of contingencies
C9_LoadFailureIsError ==
  (pc = "done" /\ TopologyNotLoaded) =>
    /\ "error" \in DOMAIN response.body
    /\ "contingencies" \notin DOMAIN response.body
    /\ response.status # 200

(***************************************************************************)
(* Claims on the aggregators                                               *)
(***************************************************************************)

\* no entry is a line in service
NoActiveLines == \A i \in 1..Len(entries) : ~InService(entries[i])

\* C10: on an empty set of active lines each aggregator returns ssi 0, avgStress
\* 0, maxStress 0 and four band counts of 0, none of them NaN or infinite
C10_EmptyActiveSetIsZero ==
  NoActiveLines =>
    /\ "client" \in aggDone => clientStats = NoStats
    /\ "server" \in aggDone => serverStats = NoStats

\* the entries of the lines in service
ActiveEntries == {i \in 1..Len(entries) : InService(entries[i])}

BandTotal(bands) == bands.low + bands.medium + bands.high + bands.overload

\* each band holds the active lines of its range of stress
BandsByRange(bands) ==
  /\ bands.low = Cardinality({i \in ActiveEntries : JsLt(entries[i], 7000)})
  /\ bands.medium =
       Cardinality({i \in ActiveEntries : JsGe(entries[i], 7000) /\ JsLt(entries[i], 9000)})
  /\ bands.high =
       Cardinality({i \in ActiveEntries : JsGe(entries[i], 9000) /\ JsLt(entries[i], 10000)})
  /\ bands.overload = Cardinality({i \in ActiveEntries : JsGe(entries[i], 10000)})

\* C11: each aggregator counts every active line in exactly one band, low below
\* 70, medium in [70, 90), high in [90, 100), overload from 100, so that the
\* four counts sum to the number of active lines
C11_BandsPartitionActiveLines ==
  /\ "client" \in aggDone =>
       BandsByRange(clientStats.bands) /\ BandTotal(clientStats.bands) = Cardinality(ActiveEntries)
  /\ "server" \in aggDone =>
       BandsByRange(serverStats.bands) /\ BandTotal(serverStats.bands) = Cardinality(ActiveEntries)

\* a finite index between 0 and 1, in millionths
InUnitInterval(ssi) == IsFiniteNum(ssi) /\ ssi >= 0 /\ ssi <= 1000000

\* C12: the System Stress Index of each aggregator lies in [0, 1] for every set
\* of line stresses, lines above 100 % included
C12_SsiInUnitInterval ==
  /\ "client" \in aggDone => InUnitInterval(clientStats.ssi)
  /\ "server" \in aggDone => InUnitInterval(serverStats.ssi)

(***************************************************************************)
(* Claims on the rating endpoint                                           *)
(***************************************************************************)

\* the smallest angular difference of two directions normalised to [0, 360)
SmallestDifference(windDeg, azimuth) ==
  LET d == Abs((windDeg % 360) - (azimuth % 360)) IN IF d > 180 THEN 360 - d ELSE d

\* C16: whatever the wind direction and the azimuth (360, negative and above
\* 360 included), the attack angle each implementation returns is min(d, 90),
\* d the smallest angular difference of the two normalised directions
C16_AttackAngleIsClampedDifference ==
  \A impl \in DOMAIN angleOut :
    angleOut[impl] # Undefined =>
      angleOut[impl] = MinOf(SmallestDifference(angleIn.windDeg, angleIn.azimuth), 90)

\* C13: every stress the rating endpoint pushes for a line, and passes to the
\* aggregator, is a finite number, and it is 0 when the rating of the line is
\* not above 0
C13_NoDegenerateStress ==
  \A i \in 1..Len(crResults) :
    /\ IsFiniteNum(crResults[i].stress)
    /\ crResults[i].ratingA <= 0 => crResults[i].stress = 0

\* C14: the rating ieee738Ampacity returns for a line is a finite current of
\* at least 100 A, whatever the wind, the ambient temperature and the MOT
C14_RatingAtLeast100 ==
  \A i \in 1..Len(crResults) :
    IsFiniteNum(crResults[i].ratingA) /\ crResults[i].ratingA >= 1000

\* C15: the actual current of every line is that of the absolute value of
\* its nominal flow times the multiplier of the scenario, so it is not
\* negative, and neither is the stress of the line
C15_CurrentFromAbsoluteFlow ==
  \A i \in 1..Len(crResults) :
    /\ crResults[i].actualA =
         AmpsOf(Abs(crLines[i].flow), scenarioMultiplier(crRequest.scenario), crLines[i].kV)
    /\ crResults[i].actualA >= 0
    /\ IsFiniteNum(crResults[i].stress) => crResults[i].stress >= 0

\* the overload temperature the claim expects of a line, given what is reported
ReportedAsClaimed(rev, files, req, line, reported) ==
  LET actualA == ActualOf(rev, req.scenario, line)
      ratingAt0 == RatingAt(rev, files, req, line, DegToTicks(0))
      ratingAt60 == RatingAt(rev, files, req, line, DegToTicks(60))
  IN  IF JsLt(ratingAt0, actualA) THEN reported = 0
      ELSE IF JsGe(ratingAt60, actualA) THEN reported = Null
      ELSE /\ reported > 0
           /\ reported < DegToTicks(60)
           /\ JsGe(RatingAt(rev, files, req, line, reported - TicksPer64th), actualA)
           /\ JsLt(RatingAt(rev, files, req, line, reported + TicksPer64th), actualA)

\* C17: the overload temperature reported for a line is 0 when its rating at
\* 0 degrees is below its actual current, null when its rating at 60 degrees
\* is still at or above it, and otherwise a temperature strictly between 0
\* and 60 degrees at which the rating crosses the actual current
C17_OverloadTempReported ==
  \A i \in 1..Len(crResults) :
    ReportedAsClaimed(crRevision, crFiles, crRequest, crLines[i], crResults[i].overloadTemp)

\* ambient temperatures, in ticks: fixed samples from -40 to 120 degrees and
\* the ends and the midpoint of the search interval
AmbientSamples ==
  {DegToTicks(c) : c \in {0 - 40, 0, 25, 50, 60, 75, 100, 120}}
    \cup {crLo, crHi, (crLo + crHi) \div 2}

LineInHand == crPc \in {"lines", "search"} /\ crIdx \in 1..Len(crLines)

\* C18: with the conductor, the wind speed, the attack angle and the MOT of a
\* line held fixed, its rating does not increase with the ambient
\* temperature: T1 <= T2 implies ampacity(T1) >= ampacity(T2)
C18_AmpacityNonIncreasing ==
  (LineInHand /\ CurrentLine.mot # NaN) =>
    \A T1, T2 \in AmbientSamples :
      T1 <= T2 => RatingAt(crRevision, crFiles, crRequest, CurrentLine, T1)
                    >= RatingAt(crRevision, crFiles, crRequest, CurrentLine, T2)

\* the search has evaluated the rating of a line at temperatures where it differs
C18_Witness ==
  /\ crPc = "search"
  /\ crRevision = 2
  /\ crIter > 2
  /\ crLo > 0
  /\ crLo < crHi
  /\ RatingAt(crRevision, crFiles, crRequest, CurrentLine, crLo)
       > RatingAt(crRevision, crFiles, crRequest, CurrentLine, crHi)

(***************************************************************************)
(* Claims on the loading of weather, topology and reference data           *)
(***************************************************************************)

\* the provider did not deliver the current weather to this request
WeatherUnavailable == wxPc = "done" /\ ~CacheFresh /\ wxFetch.kind # "ok"

\* the provider did not deliver the forecast, or compute-ratings failed for an hour
ForecastUnavailable ==
  /\ fcPc = "done"
  /\ \/ fcCache.state # "fresh" /\ fcWeather # "ok"
     \/ \E i \in 1..fcIdx : fcOutcomes[i].kind # "ok"

\* a file of the rating endpoint could not be read
ReferenceUnavailable ==
  crPc = "done" /\ ~(crFiles.linesOk /\ crFiles.libraryOk /\ crFiles.voltagesOk)

\* C19: when weather, topology or reference data cannot be loaded, the
\* function answers with an error, never with a 200 response that carries
\* fallback, default-derived or empty data
C19_UnavailableDataIsError ==
  /\ WeatherUnavailable => wxResponse.status >= 400
  /\ ForecastUnavailable => fcResponse.status >= 400
  /\ ReferenceUnavailable => crResponse.status >= 400

(***************************************************************************)
(* Claims on malformed topology rows                                       *)
(***************************************************************************)

\* a row of lines.csv with a bus number, a MOT or a flow that cannot be parsed
MalformedRow(lr, flowsRows) ==
  \/ parseInt(lr.bus0) = NaN
  \/ parseInt(lr.bus1) = NaN
  \/ parseFloatC(lr.MOT) = NaN
  \/ \E k \in 1..Len(flowsRows) :
       flowsRows[k].name = lr.name /\ parseFloatMW(flowsRows[k].p0_nominal) = NaN

MalformedIds ==
  {fetched.linesRows[k].name : k \in {j \in 1..Len(fetched.linesRows) :
                                        MalformedRow(fetched.linesRows[j], fetched.flowsRows)}}

\* C20: a line record with an unparseable bus id, MOT or flow is left out of
\* the loaded grid, so it is neither evaluated as an outage nor reported as
\* a neighbor of another line
C20_MalformedRecordsLeftOut ==
  pc \in {"loaded", "outages", "done"} =>
    /\ \A i \in 1..Len(grid) : grid[i].id \notin MalformedIds
    /\ \A c \in 1..Len(contingencies) : \A i \in 1..Len(grid) :
         grid[i].id \in MalformedIds =>
           /\ contingencies[c].outage # grid[i].name
           /\ grid[i].name \notin IssueLines(contingencies[c])

(***************************************************************************)
(* Claims on the search of solveOverloadTemp                               *)
(***************************************************************************)

\* the interval of the search brackets the crossing of the rating and the
\* actual current within 0..60 degrees
SearchBracket ==
  LET line == crLines[crIdx]
      actualA == ActualOf(crRevision, crRequest.scenario, line)
  IN  /\ 0 <= crLo /\ crLo <= crHi /\ crHi <= DegToTicks(60)
      /\ JsGe(RatingAt(crRevision, crFiles, crRequest, line, crLo), actualA)
      /\ JsLt(RatingAt(crRevision, crFiles, crRequest, line, crHi), actualA)

\* C21: the search of solveOverloadTemp ends after exactly 24 iterations;
\* at every step 0 <= lo <= hi <= 60, rating(lo) >= actualA and
\* rating(hi) < actualA; each iteration halves the interval; the returned
\* midpoint is within 0.01 degree of the crossing
C21_BisectionBracketsCrossing ==
  [][/\ crPc' = "search" => SearchBracket'
     /\ (crPc = "search" /\ crPc' = "search") =>
          (crIter' = crIter + 1 /\ 2 * (crHi' - crLo') = crHi - crLo)
     /\ (crPc = "search" /\ crPc' # "search") =>
          /\ crIter = 24
          /\ SearchBracket
          /\ 100 * (crHi - crLo) <= 2 * TicksPerDegree]_vars

(***************************************************************************)
(* Claims on the agreement of the two aggregators                          *)
(***************************************************************************)

NoLineCut == \A i \in 1..Len(entries) : InService(entries[i])

\* C22: on the same stress values, no line cut, calculateSystemStats and
\* computeSystemStressIndex return the same band counts, average stress,
\* maximum stress and SSI
C22_AggregatorsAgree ==
  (NoLineCut /\ aggDone = {"client", "server"}) =>
    /\ clientStats.bands = serverStats.bands
    /\ clientStats.avgStress = serverStats.avgStress
    /\ clientStats.maxStress = serverStats.maxStress
    /\ clientStats.ssi = serverStats.ssi

(***************************************************************************)
(* Claims on the order of the outage evaluations                           *)
(***************************************************************************)

\* orders of evaluation of n lines: the order of the loop, its reverse, its
\* rotations and its adjacent exchanges
EvaluationOrders(n) ==
  {[i \in 1..n |-> i], [i \in 1..n |-> n + 1 - i]}
    \cup {[i \in 1..n |-> ((i + k - 1) % n) + 1] : k \in 1..n}
    \cup {[i \in 1..n |-> IF i = k THEN k + 1 ELSE IF i = k + 1 THEN k ELSE i] : k \in 1..(n - 1)}

\* the contingencies pushed when the lines are evaluated in an order
RECURSIVE EvaluatedInOrder(_, _)
EvaluatedInOrder(conts, order) ==
  IF order = <<>> THEN conts
  ELSE EvaluatedInOrder(EvaluateOutage(conts, grid[Head(order)], busToLines, grid, revision, request),
                        Tail(order))

\* the contingency of each line evaluated on its own, in the order of the loop
RECURSIVE EvaluatedAlone(_)
EvaluatedAlone(i) ==
  IF i > Len(grid) THEN <<>>
  ELSE EvaluateOutage(<<>>, grid[i], busToLines, grid, revision, request) \o EvaluatedAlone(i + 1)

TiedContingencies(conts, c) ==
  \E j \in 1..Len(conts) : conts[j] # c /\ conts[j].maxStress = c.maxStress

\* the answer for an order differs from the answer returned at most among
\* contingencies of equal maxStress
SameUpToTies(top, returned, conts) ==
  /\ Len(top) = Len(returned)
  /\ \A i \in 1..Len(top) :
       /\ top[i].maxStress = returned[i].maxStress
       /\ top[i] # returned[i] => TiedContingencies(conts, top[i])

\* C23: the list returned is the same whatever the order of the evaluations
\* of the lines: the evaluation of a line reads the grid and the adjacency
\* only, and the answers of two orders differ at most in the order, and the
\* membership in the top 10, of contingencies of equal maxStress
C23_OrderOfEvaluationsIrrelevant ==
  (pc = "done" /\ response.status = 200) =>
    /\ contingencies = EvaluatedAlone(1)
    /\ \A order \in EvaluationOrders(Len(grid)) :
         LET conts == EvaluatedInOrder(<<>>, order)
         IN  /\ Len(conts) = Len(contingencies)
             /\ SeqToSet(conts) = SeqToSet(contingencies)
             /\ SameUpToTies(TopContingencies(conts), response.body.contingencies, contingencies)

\* an answer with several contingencies that another order would list differently
C23_Witness ==
  /\ pc = "done" /\ response.status = 200
  /\ Len(response.body.contingencies) >= 2
  /\ \E i \in 2..Len(response.body.contingencies) :
       response.body.contingencies[i].maxStress < response.body.contingencies[1].maxStress
  /\ \E order \in EvaluationOrders(Len(grid)) :
       TopContingencies(EvaluatedInOrder(<<>>, order)) # response.body.contingencies

(***************************************************************************)
(* Claims on the regions shown as cut                                      *)
(***************************************************************************)

\* C27: every line assigned to a region of cutRegions is in the cut set,
\* after any interleaving of region cuts and restores, clicks on lines and
\* Restore All
C27_CutRegionLinesAreCut ==
  \A regionId \in cutRegions : SeqToSet(RegionLineIds(regionId)) \subseteq SeqToSet(cutLines)

(***************************************************************************)
(* Claims on the monotonicity of the adjusted stress                       *)
(***************************************************************************)

\* the cut sets that add lines to the cut set of the simulator
LargerCuts == {cut \in SUBSET IdsOf(simLines) : simCut \subseteq cut}

\* C30: for a baseline stress >= 0, a line that stays uncut has an adjusted
\* stress that does not decrease when lines are added to the cut set, and
\* that lies between its baseline and 1.6 times its baseline
C30_AdjustedStressMonotone ==
  SimAdjustedDone =>
    \A i \in 1..Len(simLines) :
      (simLines[i].id \notin simCut /\ simLines[i].stress >= 0) =>
        /\ simLines[i].stress <= simAdjusted[simLines[i].id]
        /\ 10 * simAdjusted[simLines[i].id] <= 16 * simLines[i].stress
        /\ \A cut \in LargerCuts :
             simLines[i].id \notin cut =>
               simAdjusted[simLines[i].id] <= AdjustedStressOf(simulator, simLines[i], cut)

\* a line raised by a cut next to it that a further cut raises to the cap
C30_Witness ==
  /\ SimAdjustedDone
  /\ simCut # {}
  /\ \E i \in 1..Len(simLines) :
       /\ simLines[i].id \notin simCut
       /\ simLines[i].stress > 0
       /\ simAdjusted[simLines[i].id] > simLines[i].stress
       /\ \E cut \in LargerCuts :
            /\ simLines[i].id \notin cut
            /\ AdjustedStressOf(simulator, simLines[i], cut) > simAdjusted[simLines[i].id]
            /\ 10 * AdjustedStressOf(simulator, simLines[i], cut) = 16 * simLines[i].stress

(***************************************************************************)
(* Claims on the page under changing inputs                                *)
(***************************************************************************)

\* no call of an edge function is in flight and none has failed
AllDelivered ==
  ratingsCalls = {} /\ previewCalls = {} /\ weatherCalls = 0 /\ toasts = {}

\* what compute-ratings answers for the inputs the page holds
LiveData == RatingsData(EnvBody(temperature, windSpeed, windDirection, scenario))

\* the lines, the baseline and the stats are those of the inputs the page holds
ShowsLiveInputs ==
  /\ \A i \in 1..Len(lines) :
       /\ lines[i].stress = LinesAfterRatings(lines, LiveData)[i].stress
       /\ adjustedLines[i].stress = LinesAfterRatings(lines, LiveData)[i].stress
  /\ baseStress = BaseStressAfterRatings(LiveData)
  /\ stats = StatsAfterRatings(LiveData)
  /\ adjustedStats = StatsAfterRatings(LiveData)

\* C24: once every response of compute-ratings in flight is delivered, in
\* whatever order, the stress displayed per line, the stored baseline and the
\* system stats are those computed for the inputs set last
C24_DisplayFollowsLatestInputs ==
  (AllDelivered /\ ~forecastPreviewActive /\ cutLines = <<>>) => ShowsLiveInputs

\* the sliders of the control panel, enabled in manual mode
UserSetsInput == \E t \in TemperatureSteps : SetTemperature(t)

\* C25: in manual mode weatherData is null, and temperature, wind speed and
\* wind direction change through the input of the user only; a response of
\* weather-current that arrives after the return to manual mode changes none
C25_ManualInputsAreTheUsers ==
  [][/\ mode' = "manual" => weatherData' = NullWeather
     /\ (mode = "manual" /\ mode' = "manual"
           /\ <<temperature, windSpeed, windDirection>>' # <<temperature, windSpeed, windDirection>>)
          => UserSetsInput]_vars

\* the lines show a stress that is not the stored baseline: they were
\* written by the preview of a forecast hour
PreviewShown ==
  \E i \in 1..Len(lines) : lines[i].stress # JsOr(MapGet(baseStress, lines[i].id), 0)

\* the stress of the lines and the stats are those of the inputs the page holds
ShowsLiveDisplay ==
  /\ \A i \in 1..Len(lines) : lines[i].stress = LinesAfterRatings(lines, LiveData)[i].stress
  /\ stats = StatsAfterRatings(LiveData)

\* C26: once the preview of a forecast hour is ended by Back to Live or by a
\* change of mode, the stress of the lines and the stats it left on display
\* are eventually replaced by those of the live inputs, unless a call fails
\* or another preview is started first
C26_PreviewEventuallyReplaced ==
  (PreviewShown /\ ~forecastPreviewActive /\ toasts = {})
    ~> (ShowsLiveDisplay \/ forecastPreviewActive \/ toasts # {})

\* line i is not cut and no cut line ends at one of its buses
NoIncidentCut(i) ==
  LET sim == buildAdjacency(lines)
      cut == SeqToSet(cutLines)
      id == lines[i].id
  IN  /\ id \notin cut
      /\ id \in DOMAIN sim.lineToBuses
      /\ incidentCuts(sim, sim.lineToBuses[id], cut) = 0

\* the stress the page displays for line i when no line is cut
UncutDisplay(i) == AdjustedMemo(lines, buses, stats, baseStress, <<>>).adjustedLines[i].stress

\* C28: with lines cut, a line that is not cut and has no incident cut line
\* displays the stress it displays with no line cut, a preview included
C28_UnaffectedLineKeepsDisplay ==
  Len(cutLines) > 0 =>
    \A i \in 1..Len(lines) : NoIncidentCut(i) => adjustedLines[i].stress = UncutDisplay(i)

\* the overload temperature the response to this request holds for a line
ReturnedOverloadTemp(body, id) == StressById(RatingsData(body).lines, id, "overloadTemp")

\* C29: when a response of compute-ratings is applied, the overload
\* temperature the page holds for every line is the value returned for it: a
\* returned 0 stays 0 and a returned null stays null
C29_OverloadTempAsReturned ==
  [][\A body \in ratingsCalls :
       RatingsArrive(body) =>
         \A i \in 1..Len(lines) :
           lines'[i].overloadTemp = ReturnedOverloadTemp(body, lines[i].id)]_vars

====
